---- MODULE Spec2Model ----
(***************************************************************************)
(* dat-file-filter: the bracket tokenizer (StemInfo.from_stem) and the tag *)
(* classifier (Metadata.from_stem).  Stems, titles and tags are strings;   *)
(* a character of a string s is SubSeq(s, i, i).                           *)
(***************************************************************************)
EXTENDS Integers, Sequences, FiniteSets, TLC

VARIABLES
    stem,                   \* the stem given to from_stem
    args,                   \* the keyword arguments category, id, cloneofid
    pc,                     \* "start", "tokenized", "done" or "failed"
    stem_info,              \* the result of StemInfo.from_stem
    error,                  \* the exception that ended the call, "" if none
    tag_index,              \* the position in stem_info.tags of the next tag
    matchers,               \* the value held by each TagMatcher
    languages,              \* the set languages
    regions,                \* the set regions
    unhandled_tag_values,   \* the list unhandled_tag_values
    metadata,               \* the Metadata returned, NoMetadata before
    input,                  \* the arguments of a call of another function
    output,                 \* what that call returned or raised
    dat                     \* the DatFile under construction and the locals of
                            \* its __init__

vars == <<stem, args, pc, stem_info, error, tag_index, matchers, languages,
          regions, unhandled_tag_values, metadata, input, output, dat>>

(***************************************************************************)
(* Bounds of the model.                                                    *)
(***************************************************************************)
\* a stem of SpecStem is a concatenation of at most MaxAtoms atoms
MaxAtoms == 4
\* a stem of Spec has at most MaxTags bracket groups
MaxTags == 2

(***************************************************************************)
(* Strings.                                                                *)
(***************************************************************************)
CharAt(s, i) == IF i >= 1 /\ i <= Len(s) THEN SubSeq(s, i, i) ELSE ""

\* s[i:j] of Python for 1-based i and exclusive 1-based j, clipped to s
Slice(s, i, j) ==
    LET hi == IF j - 1 > Len(s) THEN Len(s) ELSE j - 1
    IN  IF i > hi THEN "" ELSE SubSeq(s, i, hi)

RECURSIVE Join(_, _)
\* sep.join(parts)
Join(parts, sep) ==
    IF parts = <<>> THEN ""
    ELSE IF Len(parts) = 1 THEN parts[1]
    ELSE parts[1] \o sep \o Join(Tail(parts), sep)

(***************************************************************************)
(* StemInfo._TOKEN_RE:                                                     *)
(*   [\s_]*((?P<open>\[|\((?!\^\^;))|(?P<close>[)\]]))[\s_]*|[\s_]+        *)
(***************************************************************************)
\* the class [\s_], over the characters of the model
IsSep(c) == c \in {" ", "_"}

_OPEN_TO_CLOSE == [c \in {"[", "("} |-> IF c = "[" THEN "]" ELSE ")"]

RECURSIVE SepRunEnd(_, _)
\* the position after the greedy run [\s_]* that starts at i
SepRunEnd(s, i) ==
    IF i <= Len(s) /\ IsSep(CharAt(s, i)) THEN SepRunEnd(s, i + 1) ELSE i

\* an opening pattern without the lookahead (?!\^\^;)
OpenAtAnyParen(s, i) == CharAt(s, i) \in {"[", "("}

\* (?P<open>\[|\((?!\^\^;)) matches at i
OpenAt(s, i) ==
    \/ CharAt(s, i) = "["
    \/ CharAt(s, i) = "(" /\ Slice(s, i + 1, i + 4) # "^^;"

\* (?P<close>[)\]]) matches at i
CloseAt(s, i) == CharAt(s, i) \in {")", "]"}

NoMatch == [start |-> 0, end |-> 0, open |-> "", close |-> ""]

\* _TOKEN_RE tried at position i: the first alternative (a bracket with the
\* separators around it), else the second (a separator run), else no match
TokenMatchAt(s, i) ==
    LET j == SepRunEnd(s, i)
    IN  IF OpenAt(s, j)
        THEN [start |-> i, end |-> SepRunEnd(s, j + 1),
              open |-> CharAt(s, j), close |-> ""]
        ELSE IF CloseAt(s, j)
        THEN [start |-> i, end |-> SepRunEnd(s, j + 1),
              open |-> "", close |-> CharAt(s, j)]
        ELSE IF j > i
        THEN [start |-> i, end |-> j, open |-> "", close |-> ""]
        ELSE NoMatch

RECURSIVE TokenSearch(_, _)
\* the next match of _TOKEN_RE.finditer at or after pos (NoMatch: exhausted)
TokenSearch(s, pos) ==
    IF pos > Len(s) THEN NoMatch
    ELSE IF TokenMatchAt(s, pos) # NoMatch THEN TokenMatchAt(s, pos)
    ELSE TokenSearch(s, pos + 1)

(***************************************************************************)
(* StemInfo._TAG_COMMA_RE.split:  " *[,\+] *"                              *)
(***************************************************************************)
RECURSIVE SpaceRunEnd(_, _)
SpaceRunEnd(s, i) ==
    IF i <= Len(s) /\ CharAt(s, i) = " " THEN SpaceRunEnd(s, i + 1) ELSE i

\* " *[,\+] *" tried at position i: the position after the match, 0 if none
CommaMatchEnd(s, i) ==
    LET j == SpaceRunEnd(s, i)
    IN  IF CharAt(s, j) \in {",", "+"} THEN SpaceRunEnd(s, j + 1) ELSE 0

RECURSIVE CommaSplitFrom(_, _, _)
\* the pieces of s from piece start `from`, scanning for a match at pos
CommaSplitFrom(s, from, pos) ==
    IF pos > Len(s) THEN <<Slice(s, from, Len(s) + 1)>>
    ELSE IF CommaMatchEnd(s, pos) # 0
    THEN <<Slice(s, from, pos)>>
         \o CommaSplitFrom(s, CommaMatchEnd(s, pos), CommaMatchEnd(s, pos))
    ELSE CommaSplitFrom(s, from, pos + 1)

_TAG_COMMA_RE_split(s) == CommaSplitFrom(s, 1, 1)

\* every piece kept, empty or not
KeepAnyTag(tag) == TRUE

\* "if tag": only the non-empty pieces become tags
KeepTag(tag) == tag # ""

RECURSIVE SelectTags(_)
SelectTags(pieces) ==
    IF pieces = <<>> THEN <<>>
    ELSE (IF KeepTag(Head(pieces)) THEN <<Head(pieces)>> ELSE <<>>)
         \o SelectTags(Tail(pieces))

(***************************************************************************)
(* StemInfo.from_stem                                                      *)
(***************************************************************************)
StemError(msg) == [error |-> msg, title |-> "", tags |-> <<>>]

\* the segment assigned to the list instead of appended to it
ReplaceBySegment(parts, s, last_end, start) ==
    IF start # last_end THEN <<Slice(s, last_end, start)>> ELSE parts

\* the segment cut one character too far
AppendSegmentPastStart(parts, s, last_end, start) ==
    IF start # last_end THEN Append(parts, Slice(s, last_end, start + 1)) ELSE parts

\* title_parts or tag_parts after "if start != last_end: parts.append(...)"
AppendSegment(parts, s, last_end, start) ==
    IF start # last_end THEN Append(parts, Slice(s, last_end, start)) ELSE parts

\* no check when an opening bracket is met
NoNestedCheck(in_open_tag) == FALSE

\* the check made when an opening bracket is met
NestedCheck(in_open_tag) == in_open_tag # ""

\* the closing symbol compared with the opening symbol itself
MismatchCheckUnmapped(in_open_tag, symbol) == symbol # in_open_tag

\* the check of the closing symbol against the open one
MismatchCheck(in_open_tag, symbol) == symbol # _OPEN_TO_CLOSE[in_open_tag]

\* the title parts joined without a separator
TitleUnspaced(title_parts) == Join(title_parts, "")

\* title=" ".join(title_parts)
TitleOf(title_parts) == Join(title_parts, " ")

RECURSIVE ScanTokens(_, _, _, _, _, _)
\* the loop "for match in chain(_TOKEN_RE.finditer(stem), [None])"
ScanTokens(s, last_end, in_open_tag, title_parts, tag_parts, tags) ==
    LET match == TokenSearch(s, last_end)
        start == IF match # NoMatch THEN match.start ELSE Len(s) + 1
        tparts == IF in_open_tag = ""
                  THEN AppendSegment(title_parts, s, last_end, start)
                  ELSE title_parts
        gparts == IF in_open_tag # ""
                  THEN AppendSegment(tag_parts, s, last_end, start)
                  ELSE tag_parts
    IN  IF match # NoMatch
        THEN IF match.open # ""
             THEN IF NestedCheck(in_open_tag)
                  THEN StemError("nested groups")
                  ELSE ScanTokens(s, match.end, match.open, tparts, gparts, tags)
             ELSE IF match.close # ""
             THEN IF in_open_tag = ""
                  THEN StemError("group closed but none open")
                  ELSE IF MismatchCheck(in_open_tag, match.close)
                  THEN StemError("mismatched close tag")
                  ELSE IF gparts # <<>>
                  THEN ScanTokens(s, match.end, "", tparts, <<>>,
                           tags \o SelectTags(_TAG_COMMA_RE_split(Join(gparts, " "))))
                  ELSE ScanTokens(s, match.end, "", tparts, gparts, tags)
             ELSE ScanTokens(s, match.end, in_open_tag, tparts, gparts, tags)
        ELSE IF in_open_tag # ""
        THEN StemError("unterminated group")
        ELSE [error |-> "", title |-> TitleOf(tparts), tags |-> tags]

StemInfo_from_stem(s) == ScanTokens(s, 1, "", <<>>, <<>>, <<>>)

(***************************************************************************)
(* Inputs of the tokenizer specification: every concatenation of at most   *)
(* MaxAtoms atoms.                                                         *)
(***************************************************************************)
Atoms == {"(", ")", "[", "]", " ", "_", ",", "+", "^", "^^;", "a"}

RECURSIVE AtomStrings(_)
AtomStrings(n) ==
    IF n = 0 THEN {""}
    ELSE AtomStrings(n - 1)
         \cup {s \o a : s \in AtomStrings(n - 1), a \in Atoms}

\* the stems of the repository's test of StemInfo.from_stem
TestStems ==
    { "Some Game (En,Fr,Sp) (Jp, Ko, Ch)",
      "hello(there)!",
      "hello?",
      "(what)open[who]",
      "I ate a panda",
      "(howdy) I ate a panda (partner)",
      "(howdy) I           ate a panda(partner)",
      "(howdy) I ate a panda(partner)dude ()  ",
      "____(howdy) ___I__ ate a _panda(partner)dude ()  " }

StemInputs == AtomStrings(MaxAtoms) \cup TestStems

(***************************************************************************)
(* Regular expressions of metadata.py.  A pattern is a tree of nodes; a    *)
(* match attempt returns the ways the pattern matches at a position in the *)
(* order in which a backtracking matcher tries them, each with the text    *)
(* of the named groups it set.  Every parser of metadata.py is compiled    *)
(* with re.IGNORECASE, so characters are compared lower-cased.             *)
(***************************************************************************)
UpperLetters == "ABCDEFGHIJKLMNOPQRSTUVWXYZ"
LowerLetters == "abcdefghijklmnopqrstuvwxyz"
DigitChars == {"0", "1", "2", "3", "4", "5", "6", "7", "8", "9"}
LowerSet == {CharAt(LowerLetters, i) : i \in 1..Len(LowerLetters)}
UpperSet == {CharAt(UpperLetters, i) : i \in 1..Len(UpperLetters)}

\* the 1-based position of a lower-case letter in the alphabet
AlphaPos(c) == CHOOSE i \in 1..Len(LowerLetters) : CharAt(LowerLetters, i) = c

LowerChar(c) ==
    IF c \in UpperSet
    THEN CharAt(LowerLetters,
                CHOOSE i \in 1..Len(UpperLetters) : CharAt(UpperLetters, i) = c)
    ELSE c

RECURSIVE LowerStr(_)
\* str.lower()
LowerStr(s) ==
    IF s = "" THEN ""
    ELSE LowerChar(CharAt(s, 1)) \o LowerStr(Slice(s, 2, Len(s) + 1))

Lit(x) == [t |-> "lit", s |-> x]
Set(cs) == [t |-> "set", cs |-> cs, neg |-> FALSE]
NotSet(cs) == [t |-> "set", cs |-> cs, neg |-> TRUE]
AnyChar == [t |-> "any"]
Cat(rs) == [t |-> "cat", rs |-> rs]
Alt(rs) == [t |-> "alt", rs |-> rs]
Opt(r) == [t |-> "opt", r |-> r]
Star(r) == [t |-> "star", r |-> r]
Plus(r) == [t |-> "plus", r |-> r]
Grp(n, r) == [t |-> "grp", name |-> n, r |-> r]
Digit == Set(DigitChars)                      \* \d
NonSpace == NotSet({" "})                     \* [^\s]
HexDot == Set(DigitChars \cup {"a", "b", "c", "d", "e", "f", "."})  \* [a-f0-9.]

RECURSIVE AltOfLits(_)
\* "|".join(re.escape(tag) for tag in tags), as alternatives
AltOfLits(words) ==
    IF words = <<>> THEN <<>> ELSE <<Lit(Head(words))>> \o AltOfLits(Tail(words))

GroupNames == {"name1", "name2", "name3", "number1", "number2", "name", "trial",
               "iteration", "index", "year", "month", "day", "revision",
               "prefix", "value", "version"}

\* no group has matched: match.group(n) is None, written <<>>
NoGroups == [n \in GroupNames |-> <<>>]

RECURSIVE Match(_, _, _, _), MatchSeq(_, _, _, _, _), MatchSeqEach(_, _, _, _),
          MatchAlt(_, _, _, _, _), MatchStar(_, _, _, _), MatchStarEach(_, _, _, _),
          SetGroup(_, _, _, _)

\* the matches of r at position i of s, in the matcher's order of preference
Match(r, s, i, caps) ==
    CASE r.t = "lit" ->
           IF LowerStr(Slice(s, i, i + Len(r.s))) = LowerStr(r.s)
           THEN <<[pos |-> i + Len(r.s), caps |-> caps]>> ELSE <<>>
      [] r.t = "set" ->
           IF i <= Len(s) /\ ((LowerChar(CharAt(s, i)) \in r.cs) # r.neg)
           THEN <<[pos |-> i + 1, caps |-> caps]>> ELSE <<>>
      [] r.t = "any" ->
           IF i <= Len(s) THEN <<[pos |-> i + 1, caps |-> caps]>> ELSE <<>>
      [] r.t = "cat" -> MatchSeq(r.rs, 1, s, i, caps)
      [] r.t = "alt" -> MatchAlt(r.rs, 1, s, i, caps)
      [] r.t = "opt" -> Match(r.r, s, i, caps) \o <<[pos |-> i, caps |-> caps]>>
      [] r.t = "star" -> MatchStar(r.r, s, i, caps)
      [] r.t = "plus" -> MatchStarEach(Match(r.r, s, i, caps), r.r, s, i)
      [] r.t = "grp" -> SetGroup(Match(r.r, s, i, caps), r.name, s, i)

\* rs[k], rs[k+1], ... in sequence from position i
MatchSeq(rs, k, s, i, caps) ==
    IF k > Len(rs) THEN <<[pos |-> i, caps |-> caps]>>
    ELSE MatchSeqEach(Match(rs[k], s, i, caps), rs, k + 1, s)

MatchSeqEach(found, rs, k, s) ==
    IF found = <<>> THEN <<>>
    ELSE MatchSeq(rs, k, s, Head(found).pos, Head(found).caps)
         \o MatchSeqEach(Tail(found), rs, k, s)

\* rs[k] | rs[k+1] | ...
MatchAlt(rs, k, s, i, caps) ==
    IF k > Len(rs) THEN <<>>
    ELSE Match(rs[k], s, i, caps) \o MatchAlt(rs, k + 1, s, i, caps)

\* greedy r*: one more r first, the empty match last
MatchStar(r, s, i, caps) ==
    MatchStarEach(Match(r, s, i, caps), r, s, i) \o <<[pos |-> i, caps |-> caps]>>

\* after each match of r that started at i and consumed something, r* again
MatchStarEach(found, r, s, i) ==
    IF found = <<>> THEN <<>>
    ELSE (IF Head(found).pos > i
          THEN MatchStar(r, s, Head(found).pos, Head(found).caps)
          ELSE <<>>)
         \o MatchStarEach(Tail(found), r, s, i)

\* (?P<name>...): each match records the text it spans
SetGroup(found, name, s, i) ==
    IF found = <<>> THEN <<>>
    ELSE <<[pos |-> Head(found).pos,
            caps |-> [Head(found).caps EXCEPT
                         ![name] = <<Slice(s, i, Head(found).pos)>>]]>>
         \o SetGroup(Tail(found), name, s, i)

RECURSIVE FirstFull(_, _)
FirstFull(found, s) ==
    IF found = <<>> THEN <<>>
    ELSE IF Head(found).pos = Len(s) + 1 THEN <<Head(found).caps>>
    ELSE FirstFull(Tail(found), s)

\* pattern.fullmatch(tag): <<>> for None, else <<the groups of the match>>
fullmatch(r, s) == FirstFull(Match(r, s, 1, NoGroups), s)

\* match.group(n) or ""
GroupOr(m, n) == IF m[n] = <<>> THEN "" ELSE m[n][1]

(***************************************************************************)
(* Numbers and their decimal text.                                         *)
(***************************************************************************)
DigitVal(c) == CHOOSE n \in 0..9 : CharAt("0123456789", n + 1) = c

RECURSIVE ToIntFrom(_, _, _)
ToIntFrom(s, i, acc) ==
    IF i > Len(s) THEN acc ELSE ToIntFrom(s, i + 1, 10 * acc + DigitVal(CharAt(s, i)))

\* int(s) for a string of decimal digits
ToInt(s) == ToIntFrom(s, 1, 0)

RECURSIVE ToStr(_)
\* str(n) for n >= 0
ToStr(n) ==
    IF n < 10 THEN CharAt("0123456789", n + 1)
    ELSE ToStr(n \div 10) \o CharAt("0123456789", (n % 10) + 1)

\* str.isdigit()
IsDigitStr(s) == s # "" /\ \A i \in 1..Len(s) : CharAt(s, i) \in DigitChars

RECURSIVE IndexOf(_, _, _)
\* the 1-based position of x in the list from position k on, 0 if absent
IndexOf(list, x, k) ==
    IF k > Len(list) THEN 0
    ELSE IF list[k] = x THEN k
    ELSE IndexOf(list, x, k + 1)

RECURSIVE Flatten(_)
Flatten(lists) ==
    IF lists = <<>> THEN <<>> ELSE Head(lists) \o Flatten(Tail(lists))

RECURSIVE PrefixEach(_, _)
PrefixEach(p, words) ==
    IF words = <<>> THEN <<>>
    ELSE <<p \o Head(words)>> \o PrefixEach(p, Tail(words))

(***************************************************************************)
(* The disc recognizers.                                                   *)
(***************************************************************************)
FirstRomanNumerals == <<"I", "II", "III", "IV", "V", "VI", "VII", "VIII", "IX", "X">>

\* I..X extended with X + each of them: XI..XX
_EARLY_ROMAN_NUMERALS == FirstRomanNumerals \o PrefixEach("X", FirstRomanNumerals)

\* the spellings with a macron (kyu and ju with a long u) are left out: no
\* tag of the model holds a character outside ASCII, so they never match
_EARLY_JAPANESE_NUMBERS ==
    << <<"ichi">>, <<"ni">>, <<"san">>, <<"shi", "yon">>, <<"go">>, <<"roku">>,
       <<"shichi", "nana">>, <<"hachi">>, <<"ku", "kyu">>, <<"ju">> >>

_ROMAN_OR_JAPANESE_NUMBERS ==
    AltOfLits(_EARLY_ROMAN_NUMERALS) \o AltOfLits(Flatten(_EARLY_JAPANESE_NUMBERS))

RECURSIVE JapaneseIndex(_, _)
\* the first index (1-based) whose spellings hold number, 0 if none
JapaneseIndex(number, k) ==
    IF k > Len(_EARLY_JAPANESE_NUMBERS) THEN 0
    ELSE IF IndexOf(_EARLY_JAPANESE_NUMBERS[k], number, 1) # 0 THEN k
    ELSE JapaneseIndex(number, k + 1)

\* str(ord(number.lower()) - ord("a")) for a single letter
LetterNumber(c) == ToStr(AlphaPos(c) - 1)

\* the text returned for a string of digits
DigitsNumber(number) == number

disc_number_to_int(number) ==
    IF IsDigitStr(number) THEN DigitsNumber(number)
    ELSE IF IndexOf(_EARLY_ROMAN_NUMERALS, number, 1) # 0
    THEN ToStr(IndexOf(_EARLY_ROMAN_NUMERALS, number, 1))
    ELSE LET lower == LowerStr(number)
         IN  IF Len(lower) = 1 /\ lower \in LowerSet
             THEN LetterNumber(lower)
             ELSE IF JapaneseIndex(lower, 1) # 0
             THEN ToStr(JapaneseIndex(lower, 1))
             ELSE ""

\* cd (?P<name1>.+)|(?P<name2>.+)-hen|
\* ((?P<name3>.+) )?dis[ck]( (?P<number1>\d+|[A-Z]|<roman or japanese>))?|
\* (?P<number2><roman or japanese>)
DISC_PATTERN ==
    Alt(<< Cat(<<Lit("cd "), Grp("name1", Plus(AnyChar))>>),
           Cat(<<Grp("name2", Plus(AnyChar)), Lit("-hen")>>),
           Cat(<<Opt(Cat(<<Grp("name3", Plus(AnyChar)), Lit(" ")>>)),
                 Lit("dis"), Set({"c", "k"}),
                 Opt(Cat(<<Lit(" "),
                           Grp("number1",
                               Alt(<<Plus(Digit), Set(LowerSet)>>
                                   \o _ROMAN_OR_JAPANESE_NUMBERS))>>))>>),
           Grp("number2", Alt(_ROMAN_OR_JAPANESE_NUMBERS)) >>)

Returned(v) == [raised |-> "", value |-> v]
Raised(e) == [raised |-> e, value |-> ""]

DISC_NUMBER_PARSER(tag) ==
    LET m == fullmatch(DISC_PATTERN, tag)
    IN  IF m = <<>> THEN Returned("")
        ELSE Returned(disc_number_to_int(
                 IF GroupOr(m[1], "number1") # "" THEN GroupOr(m[1], "number1")
                 ELSE GroupOr(m[1], "number2")))

DISC_NAME_PARSER(tag) ==
    LET m == fullmatch(DISC_PATTERN, tag)
    IN  IF m = <<>> THEN Returned("")
        ELSE Returned(IF GroupOr(m[1], "name1") # "" THEN GroupOr(m[1], "name1")
                      ELSE IF GroupOr(m[1], "name2") # "" THEN GroupOr(m[1], "name2")
                      ELSE GroupOr(m[1], "name3"))

(***************************************************************************)
(* The other recognizers.                                                  *)
(***************************************************************************)
\* PatternParser.__call__ with FULL_TAG_EXTRACTOR: match.string or ""
FullTagParser(pattern, tag) ==
    IF fullmatch(pattern, tag) = <<>> THEN Returned("") ELSE Returned(tag)

\* PatternParser.from_tags(tags): the tags as alternatives
from_tags(tags) == Alt(AltOfLits(tags))

\* (?P<name>(tech )?demo|(playable game )?preview( edition by .+)?|.+ previews
\* |(taikenban )?sample( rom)?|(?P<trial>([^\s]+ )+)?trial)
\* ( ((?P<iteration>\d+)|edition|version))?
DEMO_PATTERN ==
    Cat(<< Grp("name",
               Alt(<< Cat(<<Opt(Lit("tech ")), Lit("demo")>>),
                      Cat(<<Opt(Lit("playable game ")), Lit("preview"),
                            Opt(Cat(<<Lit(" edition by "), Plus(AnyChar)>>))>>),
                      Cat(<<Plus(AnyChar), Lit(" previews")>>),
                      Cat(<<Opt(Lit("taikenban ")), Lit("sample"), Opt(Lit(" rom"))>>),
                      Cat(<<Opt(Grp("trial", Plus(Cat(<<Plus(NonSpace), Lit(" ")>>)))),
                            Lit("trial")>>) >>)),
           Opt(Cat(<<Lit(" "),
                     Alt(<<Grp("iteration", Plus(Digit)),
                           Lit("edition"), Lit("version")>>)>>)) >>)

DEMO_PARSER(tag) == FullTagParser(DEMO_PATTERN, tag)
EARLY_PARSER(tag) == FullTagParser(from_tags(<<"early", "earlier">>), tag)
ARCADE_PARSER(tag) == FullTagParser(from_tags(<<"arcade">>), tag)
WII_PARSER(tag) == FullTagParser(from_tags(<<"wii">>), tag)
SWITCH_PARSER(tag) == FullTagParser(from_tags(<<"switch", "switch online">>), tag)
STEAM_PARSER(tag) == FullTagParser(from_tags(<<"steam">>), tag)
VIRTUAL_CONSOLE_PARSER(tag) == FullTagParser(from_tags(<<"virtual console">>), tag)
CLASSIC_MINI_PARSER(tag) == FullTagParser(from_tags(<<"classic mini">>), tag)
NINTENDO_POWER_PARSER(tag) == FullTagParser(from_tags(<<"np">>), tag)
UNLICENSED_PARSER(tag) == FullTagParser(from_tags(<<"unl", "unlicensed">>), tag)
BAD_DUMP_PARSER(tag) == FullTagParser(from_tags(<<"b">>), tag)
DEBUG_PARSER(tag) == FullTagParser(from_tags(<<"debug">>), tag)

\* alt( (?P<index>\d+))?   ->   match.group("index") or "1"
ALTERNATE_PATTERN ==
    Cat(<<Lit("alt"), Opt(Cat(<<Lit(" "), Grp("index", Plus(Digit))>>))>>)

ALTERNATE_PARSER(tag) ==
    LET m == fullmatch(ALTERNATE_PATTERN, tag)
    IN  IF m = <<>> THEN Returned("")
        ELSE Returned(IF GroupOr(m[1], "index") # "" THEN GroupOr(m[1], "index")
                      ELSE "1")

\* (?P<name>alpha|beta|([^\s]+ )?promo|(possible )?proto(type)?)
\* ( (?P<iteration>\d+))?
PRERELEASE_PATTERN ==
    Cat(<< Grp("name",
               Alt(<< Lit("alpha"), Lit("beta"),
                      Cat(<<Opt(Cat(<<Plus(NonSpace), Lit(" ")>>)), Lit("promo")>>),
                      Cat(<<Opt(Lit("possible ")), Lit("proto"), Opt(Lit("type"))>>) >>)),
           Opt(Cat(<<Lit(" "), Grp("iteration", Plus(Digit))>>)) >>)

PRERELEASE_PARSER(tag) == FullTagParser(PRERELEASE_PATTERN, tag)

\* \d{1,2}|XX
MonthOrDay == Alt(<<Cat(<<Digit, Digit>>), Digit, Lit("XX")>>)

\* (?P<year>\d{4})([-.](?P<month>\d{1,2}|XX)([-.](?P<day>\d{1,2}|XX))?)?
DATE_PATTERN ==
    Cat(<< Grp("year", Cat(<<Digit, Digit, Digit, Digit>>)),
           Opt(Cat(<< Set({"-", "."}), Grp("month", MonthOrDay),
                      Opt(Cat(<<Set({"-", "."}), Grp("day", MonthOrDay)>>)) >>)) >>)

IsLeapYear(y) == (y % 4 = 0 /\ y % 100 # 0) \/ y % 400 = 0

DaysInMonth(y, m) ==
    IF m = 2 THEN (IF IsLeapYear(y) THEN 29 ELSE 28)
    ELSE IF m \in {4, 6, 9, 11} THEN 30 ELSE 31

\* datetime.date(y, m, d) accepts the arguments
ValidDate(y, m, d) ==
    /\ y >= 1 /\ y <= 9999
    /\ m >= 1 /\ m <= 12
    /\ d >= 1 /\ d <= DaysInMonth(y, m)

RECURSIVE ZeroPad(_, _)
ZeroPad(s, width) == IF Len(s) >= width THEN s ELSE ZeroPad("0" \o s, width)

\* datetime.date(y, m, d).isoformat()
isoformat(y, m, d) ==
    ZeroPad(ToStr(y), 4) \o "-" \o ZeroPad(ToStr(m), 2) \o "-" \o ZeroPad(ToStr(d), 2)

\* int(x) if x.lower() != "xx" else 1
MonthOrDayValue(x) == IF LowerStr(x) # "xx" THEN ToInt(x) ELSE 1

\* the extractor calls .lower() on match.group("month") and on
\* match.group("day"): on a group that did not take part (None) that is an
\* AttributeError
DATE_PARSER(tag) ==
    LET m == fullmatch(DATE_PATTERN, tag)
    IN  IF m = <<>> THEN Returned("")
        ELSE IF m[1]["month"] = <<>> \/ m[1]["day"] = <<>>
        THEN Raised("AttributeError")
        ELSE LET y == ToInt(m[1]["year"][1])
                 mo == MonthOrDayValue(m[1]["month"][1])
                 d == MonthOrDayValue(m[1]["day"][1])
             IN  IF ValidDate(y, mo, d) THEN Returned(isoformat(y, mo, d))
                 ELSE Raised("ValueError")

\* ((Rev|Revision) |r)(?P<revision>[a-f0-9.]+)
REVISION_PATTERN ==
    Cat(<< Alt(<<Cat(<<Alt(<<Lit("Rev"), Lit("Revision")>>), Lit(" ")>>), Lit("r")>>),
           Grp("revision", Plus(HexDot)) >>)

REVISION_PARSER(tag) ==
    LET m == fullmatch(REVISION_PATTERN, tag)
    IN  IF m = <<>> THEN Returned("") ELSE Returned(GroupOr(m[1], "revision"))

\* ((?P<prefix>v|Ver|Version )(?P<value>[a-f0-9.]+))
\* |(?P<version>\.?(\d|[a-f]\d[^\s]*\d)[^\s]*)
VERSION_PATTERN ==
    Alt(<< Cat(<<Grp("prefix", Alt(<<Lit("v"), Lit("Ver"), Lit("Version ")>>)),
                 Grp("value", Plus(HexDot))>>),
           Grp("version",
               Cat(<<Opt(Lit(".")),
                     Alt(<<Digit,
                           Cat(<<Set({"a", "b", "c", "d", "e", "f"}), Digit,
                                 Star(NonSpace), Digit>>)>>),
                     Star(NonSpace)>>)) >>)

VERSION_PARSER(tag) ==
    LET m == fullmatch(VERSION_PATTERN, tag)
    IN  IF m = <<>> THEN Returned("")
        ELSE Returned(IF GroupOr(m[1], "prefix") # "" THEN GroupOr(m[1], "value")
                      ELSE GroupOr(m[1], "version"))

(***************************************************************************)
(* TagMatcher and the list TAG_MATCHERS of Metadata.from_stem.             *)
(***************************************************************************)
\* the matchers of TAG_MATCHERS, group by group, in the declared order
TAG_MATCHERS ==
    << <<"disc_name", "disc_number">>, <<"demo">>, <<"early">>, <<"debug">>,
       <<"arcade">>, <<"wii">>, <<"switch">>, <<"steam">>, <<"virtual_console">>,
       <<"classic_mini">>, <<"nintendo_power">>, <<"unlicensed">>, <<"bad_dump">>,
       <<"alternate">>, <<"date">>, <<"prerelease">>, <<"revision">>, <<"version">> >>

MatcherNames == {Flatten(TAG_MATCHERS)[k] : k \in 1..Len(Flatten(TAG_MATCHERS))}

\* matcher.parser(tag) for the parser each matcher was made from
Parser(name, tag) ==
    CASE name = "disc_name" -> DISC_NAME_PARSER(tag)
      [] name = "disc_number" -> DISC_NUMBER_PARSER(tag)
      [] name = "demo" -> DEMO_PARSER(tag)
      [] name = "early" -> EARLY_PARSER(tag)
      [] name = "debug" -> DEBUG_PARSER(tag)
      [] name = "arcade" -> ARCADE_PARSER(tag)
      [] name = "wii" -> WII_PARSER(tag)
      [] name = "switch" -> SWITCH_PARSER(tag)
      [] name = "steam" -> STEAM_PARSER(tag)
      [] name = "virtual_console" -> VIRTUAL_CONSOLE_PARSER(tag)
      [] name = "classic_mini" -> CLASSIC_MINI_PARSER(tag)
      [] name = "nintendo_power" -> NINTENDO_POWER_PARSER(tag)
      [] name = "unlicensed" -> UNLICENSED_PARSER(tag)
      [] name = "bad_dump" -> BAD_DUMP_PARSER(tag)
      [] name = "alternate" -> ALTERNATE_PARSER(tag)
      [] name = "date" -> DATE_PARSER(tag)
      [] name = "prerelease" -> PRERELEASE_PARSER(tag)
      [] name = "revision" -> REVISION_PARSER(tag)
      [] name = "version" -> VERSION_PARSER(tag)

\* the tags of the stems of Spec
TagVocabulary ==
    {"Disc 1", "Disc 01", "Disc I", "Disc 2", "ichi", "Story Disc 1", "Disc",
     "CD Previews", "Demo", "Rev 1", "Rev 2", "1999-01-01", "v1.0",
     "En", "USA", "Jp"}

\* the results of the parsers on the tags of the vocabulary, computed once
ParserTable ==
    [tag \in TagVocabulary |-> [name \in MatcherNames |-> Parser(name, tag)]]

\* self.parser(tag)
ParserCall(name, tag) ==
    IF tag \in TagVocabulary THEN ParserTable[tag][name] ELSE Parser(name, tag)

\* every matcher made with allow_duplicates=True
AllowAnyDuplicates(name) == TRUE

\* the matcher made with allow_duplicates=True
AllowDuplicates(name) == name = "disc_number"

\* "elif value != self.value": the values of a duplicate-tolerant matcher
\* conflict
ValuesConflict(held, value) == value # held

\* the body of TagMatcher.__call__ once r = self.parser(tag) is known: the
\* exception raised ("" if none), whether the call returned True, and
\* self.value after the call
TagMatcherBody(r, name, held) ==
    IF r.raised # ""
    THEN [raised |-> r.raised, matched |-> FALSE, value |-> held]
    ELSE IF r.value # ""
    THEN IF held # "" /\ ~AllowDuplicates(name)
         THEN [raised |-> "Multiple equivalent tags",
               matched |-> FALSE, value |-> held]
         ELSE IF held # "" /\ ValuesConflict(held, r.value)
         THEN [raised |-> "conflicting values",
               matched |-> FALSE, value |-> held]
         ELSE [raised |-> "", matched |-> TRUE, value |-> r.value]
    ELSE [raised |-> "", matched |-> FALSE, value |-> held]

\* TagMatcher.__call__
TagMatcherCall(name, held, tag) ==
    TagMatcherBody(ParserCall(name, tag), name, held)

RECURSIVE RunGroup(_, _, _, _, _), AfterMatcher(_, _, _, _, _, _)
\* "if matcher(tag): matched = True", r being the outcome of matcher(tag),
\* and the rest of the group
AfterMatcher(r, group, k, tag, held, matched) ==
    IF r.raised # ""
    THEN [raised |-> r.raised, matched |-> matched, held |-> held]
    ELSE RunGroup(group, k + 1, tag, [held EXCEPT ![group[k]] = r.value],
                  matched \/ r.matched)

\* "for matcher in matcher_group", from matcher k on
RunGroup(group, k, tag, held, matched) ==
    IF k > Len(group) THEN [raised |-> "", matched |-> matched, held |-> held]
    ELSE AfterMatcher(TagMatcherCall(group[k], held[group[k]], tag),
                      group, k, tag, held, matched)

\* the loop over the groups without its break
NeverStop(matched) == FALSE

\* "if matched: break"
StopAfterGroup(matched) == matched

RECURSIVE RunGroups(_, _, _, _), AfterGroup(_, _, _)
\* the end of a pass of "for matcher_group in TAG_MATCHERS", r being the
\* outcome of the group, and the rest of the groups
AfterGroup(r, g, tag) ==
    IF r.raised # "" \/ StopAfterGroup(r.matched) THEN r
    ELSE RunGroups(g + 1, tag, r.held, r.matched)

\* "for matcher_group in TAG_MATCHERS", from group g on
RunGroups(g, tag, held, matched) ==
    IF g > Len(TAG_MATCHERS)
    THEN [raised |-> "", matched |-> matched, held |-> held]
    ELSE AfterGroup(RunGroup(TAG_MATCHERS[g], 1, tag, held, matched), g, tag)

(***************************************************************************)
(* Language, Region and the lookups of Metadata.                           *)
(***************************************************************************)
Language ==
    {"En-US", "En", "En-GB", "Fr", "Fr-CA", "De", "Es", "Es-XL", "It", "Nl",
     "Sv", "Da", "Ja", "No", "Fi", "Ko", "Ru", "Pl", "Pt", "Pt-BR", "Tr", "Ar",
     "Zh", "Zh-Hans", "Zh-Hant", "Cs", "Hi", "El", "Ca", "Hr", "Hu"}

Region ==
    {"USA", "UK", "Austria", "Denmark", "Norway", "Europe", "Korea", "Asia",
     "Australia", "China", "Italy", "Israel", "Ireland", "Scandinavia",
     "Latin America", "Taiwan", "Brazil", "Portugal", "France", "Greece",
     "Spain", "Belgium", "Netherlands", "Canada", "Germany", "Hong Kong",
     "New Zealand", "Japan", "Sweden", "Finland", "Poland", "World", "Russia"}

\* a lookup that takes no account of the case of the letters
LanguageLookupAnyCase(tag) == \E l \in Language : LowerStr(l) = LowerStr(tag)

\* Metadata._LANGUAGE_LOOKUP.get(tag) finds a member
_LANGUAGE_LOOKUP(tag) == tag \in Language

\* Metadata._REGION_LOOKUP.get(tag) finds a member
_REGION_LOOKUP(tag) == tag \in Region

\* "if not tag": the tag is blank, which raises the blank-tag RuntimeError
BlankTagCheck(tag) == tag = ""

\* the tag not appended
DropUnhandled(values, tag) == values

\* unhandled_tag_values.append(tag)
AppendUnhandled(values, tag) == Append(values, tag)

(***************************************************************************)
(* The entity model built at the end of Metadata.from_stem.                *)
(***************************************************************************)
\* TagMatcher.__int__: int(self.value or 0)
MatcherInt(value) == IF value = "" THEN 0 ELSE ToInt(value)

Edition(held) ==
    [arcade |-> held["arcade"] # "",
     version |-> held["version"],
     revision |-> held["revision"],
     prerelease |-> held["prerelease"],
     demo |-> held["demo"],
     early |-> held["early"],
     debug |-> held["debug"] # "",
     date |-> held["date"],
     alternate |-> MatcherInt(held["alternate"]),
     wii |-> held["wii"] # "",
     switch |-> held["switch"] # "",
     steam |-> held["steam"] # "",
     virtual_console |-> held["virtual_console"] # "",
     classic_mini |-> held["classic_mini"] # "",
     nintendo_power |-> held["nintendo_power"] # ""]

Disc(held) ==
    [name |-> held["disc_name"], number |-> MatcherInt(held["disc_number"])]

\* the values of a list, as the frozenset made from it
ValuesOf(list) == {list[k] : k \in 1..Len(list)}

\* the Metadata(...) call that ends from_stem: id and cloneofid are not
\* passed on and keep the defaults of the dataclass
Metadata(s, info, held, regs, langs, unhandled, a) ==
    [unit |->
        [title |-> info.title,
         entity |->
            [variation |-> [edition |-> Edition(held), disc |-> Disc(held)],
             unhandled_tags |-> ValuesOf(unhandled)],
         localization |-> [regions |-> regs, languages |-> langs]],
     unlicensed |-> held["unlicensed"] # "",
     bad_dump |-> held["bad_dump"] # "",
     category |-> a.category,
     stem |-> s,
     id |-> "",
     cloneofid |-> ""]

(***************************************************************************)
(* The calls.  SpecStem is a call of StemInfo.from_stem on every short     *)
(* stem; Spec is a call of Metadata.from_stem on a title followed by       *)
(* bracketed tags.                                                         *)
(***************************************************************************)
NoStemInfo == [error |-> "", title |-> "", tags |-> <<>>]
NoMetadata == [stem |-> ""]
NoArgs == [category |-> "", id |-> "", cloneofid |-> ""]
NoValues == [n \in MatcherNames |-> ""]
NoInput == [call |-> ""]
NoOutput == [raised |-> "", value |-> ""]
NoDat == [child |-> 0]

RECURSIVE TaggedStems(_)
\* "T" followed by at most n bracket groups of one tag each
TaggedStems(n) ==
    IF n = 0 THEN {"T"}
    ELSE TaggedStems(n - 1)
         \cup {s \o " (" \o tag \o ")" : s \in TaggedStems(n - 1),
                                        tag \in TagVocabulary}

\* the keyword arguments of the call of Metadata.from_stem: the defaults, or
\* all three given
CallArgs == {NoArgs, [category |-> "Games", id |-> "0001", cloneofid |-> "0002"]}

InitCommon ==
    /\ pc = "start"
    /\ stem_info = NoStemInfo
    /\ error = ""
    /\ tag_index = 1
    /\ matchers = NoValues
    /\ languages = {}
    /\ regions = {}
    /\ unhandled_tag_values = <<>>
    /\ metadata = NoMetadata
    /\ output = NoOutput
    /\ dat = NoDat

InitStem ==
    /\ stem \in StemInputs
    /\ args = NoArgs
    /\ input = NoInput
    /\ InitCommon

Init ==
    /\ stem \in TaggedStems(MaxTags)
    /\ args \in CallArgs
    /\ input = NoInput
    /\ InitCommon

\* stem_info = StemInfo.from_stem(stem)
Tokenize ==
    /\ pc = "start"
    /\ stem_info' = StemInfo_from_stem(stem)
    /\ error' = stem_info'.error
    /\ pc' = IF stem_info'.error = "" THEN "tokenized" ELSE "failed"
    /\ UNCHANGED <<stem, args, tag_index, matchers, languages, regions,
                   unhandled_tag_values, metadata, input, output, dat>>

\* the body of the loop "for tag in stem_info.tags", r being the outcome of
\* the loop over TAG_MATCHERS for the tag
LoopBody(tag, r) ==
    IF r.raised # ""
    THEN /\ error' = r.raised
         /\ pc' = "failed"
         /\ UNCHANGED <<tag_index, matchers, languages, regions,
                        unhandled_tag_values>>
    ELSE IF r.matched
    THEN /\ matchers' = r.held
         /\ tag_index' = tag_index + 1
         /\ UNCHANGED <<pc, error, languages, regions, unhandled_tag_values>>
    ELSE IF _LANGUAGE_LOOKUP(tag)
    THEN /\ languages' = languages \cup {tag}
         /\ matchers' = r.held
         /\ tag_index' = tag_index + 1
         /\ UNCHANGED <<pc, error, regions, unhandled_tag_values>>
    ELSE IF _REGION_LOOKUP(tag)
    THEN /\ regions' = regions \cup {tag}
         /\ matchers' = r.held
         /\ tag_index' = tag_index + 1
         /\ UNCHANGED <<pc, error, languages, unhandled_tag_values>>
    ELSE IF BlankTagCheck(tag)
    THEN /\ error' = "Received blank tag"
         /\ pc' = "failed"
         /\ UNCHANGED <<tag_index, matchers, languages, regions,
                        unhandled_tag_values>>
    ELSE /\ unhandled_tag_values' = AppendUnhandled(unhandled_tag_values, tag)
         /\ matchers' = r.held
         /\ tag_index' = tag_index + 1
         /\ UNCHANGED <<pc, error, languages, regions>>

\* one pass of "for tag in stem_info.tags"
ClassifyTag ==
    /\ pc = "tokenized"
    /\ tag_index <= Len(stem_info.tags)
    /\ LoopBody(stem_info.tags[tag_index],
                RunGroups(1, stem_info.tags[tag_index], matchers, FALSE))
    /\ UNCHANGED <<stem, args, stem_info, metadata, input, output, dat>>

\* "return Metadata(...)" once every tag is classified
Build ==
    /\ pc = "tokenized"
    /\ tag_index > Len(stem_info.tags)
    /\ metadata' = Metadata(stem, stem_info, matchers, regions, languages,
                            unhandled_tag_values, args)
    /\ pc' = "done"
    /\ UNCHANGED <<stem, args, stem_info, error, tag_index, matchers, languages,
                   regions, unhandled_tag_values, input, output, dat>>

\* StemInfo.from_stem(stem_info.title): the tokenizer called on a title it
\* returned
TokenizeTitle ==
    /\ pc = "tokenized"
    /\ output' = StemInfo_from_stem(stem_info.title)
    /\ pc' = "retokenized"
    /\ UNCHANGED <<stem, args, stem_info, error, tag_index, matchers, languages,
                   regions, unhandled_tag_values, metadata, input, dat>>

NextStem == Tokenize

SpecStem == InitStem /\ [][NextStem]_vars

NextTitle == Tokenize \/ TokenizeTitle

SpecTitle == InitStem /\ [][NextTitle]_vars

Next == Tokenize \/ ClassifyTag \/ Build

Spec == Init /\ [][Next]_vars

(***************************************************************************)
(* Character-level reference definitions used to state the properties of   *)
(* the tokenizer.  They read the stem directly, bracket by bracket, and do *)
(* not go through the token loop.                                          *)
(***************************************************************************)
Positions(s) == 1..Len(s)

\* an opening bracket at i with an opening bracket after it and no close between
HasNested(s) ==
    \E i, j \in Positions(s) :
        /\ i < j /\ OpenAt(s, i) /\ OpenAt(s, j)
        /\ \A k \in (i + 1)..(j - 1) : ~CloseAt(s, k)

\* an opening bracket at i whose next bracket is a close of the other kind
HasMismatch(s) ==
    \E i, j \in Positions(s) :
        /\ i < j /\ OpenAt(s, i) /\ CloseAt(s, j)
        /\ \A k \in (i + 1)..(j - 1) : ~CloseAt(s, k) /\ ~OpenAt(s, k)
        /\ \/ CharAt(s, i) = "(" /\ CharAt(s, j) = "]"
           \/ CharAt(s, i) = "[" /\ CharAt(s, j) = ")"

\* an opening bracket with no closing bracket after it
HasUnterminated(s) ==
    \E i \in Positions(s) :
        OpenAt(s, i) /\ \A k \in (i + 1)..Len(s) : ~CloseAt(s, k)

\* a closing bracket at j with no group open: every opening bracket before
\* it has a closing bracket between
HasStrayClose(s) ==
    \E j \in Positions(s) :
        /\ CloseAt(s, j)
        /\ \A i \in 1..(j - 1) :
              OpenAt(s, i) => \E k \in (i + 1)..(j - 1) : CloseAt(s, k)

RECURSIVE Words(_, _, _)
\* the maximal runs of non-separator characters of s from position i on,
\* cur being the run read so far
Words(s, i, cur) ==
    IF i > Len(s) THEN (IF cur = "" THEN <<>> ELSE <<cur>>)
    ELSE IF IsSep(CharAt(s, i))
    THEN (IF cur = "" THEN <<>> ELSE <<cur>>) \o Words(s, i + 1, "")
    ELSE Words(s, i + 1, cur \o CharAt(s, i))

\* s with leading and trailing separators dropped and every inner run of
\* separators replaced by one space
RefNormalize(s) == Join(Words(s, 1, ""), " ")

\* s without its separators
StripSeps(s) == Join(Words(s, 1, ""), "")

RECURSIVE StripChars(_, _)
\* s without the characters of drop
StripChars(s, drop) ==
    IF s = "" THEN ""
    ELSE (IF CharAt(s, 1) \in drop THEN "" ELSE CharAt(s, 1))
         \o StripChars(Slice(s, 2, Len(s) + 1), drop)

RECURSIVE NextOpen(_, _)
NextOpen(s, p) ==
    IF p > Len(s) THEN 0 ELSE IF OpenAt(s, p) THEN p ELSE NextOpen(s, p + 1)

RECURSIVE NextClose(_, _)
NextClose(s, p) ==
    IF p > Len(s) THEN 0 ELSE IF CloseAt(s, p) THEN p ELSE NextClose(s, p + 1)

RECURSIVE RefGroups(_, _)
\* the contents of the bracket groups of a well-formed stem, left to right
RefGroups(s, p) ==
    LET i == NextOpen(s, p)
        j == NextClose(s, i + 1)
    IN  IF i = 0 \/ j = 0 THEN <<>>
        ELSE <<Slice(s, i + 1, j)>> \o RefGroups(s, j + 1)

RECURSIVE RefOutside(_, _)
\* the text of a well-formed stem outside its bracket groups, every group
\* replaced by one space
RefOutside(s, p) ==
    LET i == NextOpen(s, p)
        j == NextClose(s, i + 1)
    IN  IF i = 0 \/ j = 0 THEN Slice(s, p, Len(s) + 1)
        ELSE Slice(s, p, i) \o " " \o RefOutside(s, j + 1)

RECURSIVE SplitOn(_, _, _, _)
\* s split at every character of seps, cur being the piece read so far
SplitOn(s, seps, i, cur) ==
    IF i > Len(s) THEN <<cur>>
    ELSE IF CharAt(s, i) \in seps
    THEN <<cur>> \o SplitOn(s, seps, i + 1, "")
    ELSE SplitOn(s, seps, i + 1, cur \o CharAt(s, i))

RECURSIVE NonEmpty(_)
NonEmpty(pieces) ==
    IF pieces = <<>> THEN <<>>
    ELSE (IF Head(pieces) # "" THEN <<Head(pieces)>> ELSE <<>>)
         \o NonEmpty(Tail(pieces))

RECURSIVE NormalizeAll(_)
NormalizeAll(pieces) ==
    IF pieces = <<>> THEN <<>>
    ELSE <<RefNormalize(Head(pieces))>> \o NormalizeAll(Tail(pieces))

RECURSIVE RefTagsOf(_)
\* the non-empty comma/plus pieces of each group content, in order
RefTagsOf(groups) ==
    IF groups = <<>> THEN <<>>
    ELSE NonEmpty(NormalizeAll(SplitOn(Head(groups), {",", "+"}, 1, "")))
         \o RefTagsOf(Tail(groups))

RefTags(s) == RefTagsOf(RefGroups(s, 1))

RefTitle(s) == RefNormalize(RefOutside(s, 1))

\* every "(" of s starts "(^^;" and s has no other bracket character
OnlyKaomojiBrackets(s) ==
    \A i \in Positions(s) :
        /\ CharAt(s, i) \notin {")", "[", "]"}
        /\ CharAt(s, i) = "(" => Slice(s, i + 1, i + 4) = "^^;"

KaomojiCount(s) == Cardinality({i \in Positions(s) : Slice(s, i, i + 4) = "(^^;"})

Tokenized == pc = "tokenized"
Failed == pc = "failed"

(***************************************************************************)
(* Properties of StemInfo.from_stem, checked under SpecStem.               *)
(***************************************************************************)
Malformed3(s) == HasNested(s) \/ HasMismatch(s) \/ HasUnterminated(s)

\* C5: a stem with an opening bracket inside an open group, a group closed
\* by the wrong symbol, or a group still open at the end of the input is
\* rejected by StemInfo.from_stem.
C5_MalformedRejected ==
    (pc # "start" /\ Malformed3(stem)) => (Failed /\ error # "")

C5_Witness ==
    /\ Failed
    /\ HasNested(stem) /\ error = "nested groups"
    /\ Len(stem) >= 3

\* C6 as stated: StemInfo.from_stem fails only on a nested bracket, a
\* wrongly closed bracket or an unterminated bracket.
C6_FailsOnlyOnThree == Failed => Malformed3(stem)

\* C6 amended: StemInfo.from_stem fails only on a nested bracket, a wrongly
\* closed bracket, an unterminated bracket, or a closing bracket met while no
\* group is open; on every other stem it returns a (title, tags) result.
C6_FailsOnlyOnFour ==
    /\ Failed => (Malformed3(stem) \/ HasStrayClose(stem))
    /\ (pc # "start" /\ ~Malformed3(stem) /\ ~HasStrayClose(stem))
          => (Tokenized /\ error = "")

C6_Witness ==
    /\ Failed /\ error = "group closed but none open"
    /\ HasStrayClose(stem) /\ ~Malformed3(stem)

\* C7: "(" followed by "^^;" opens no group: a stem whose only "(" are of
\* this form and that has no other bracket character tokenizes with no tags,
\* and its title keeps every kaomoji.
C7_KaomojiIsText ==
    (pc # "start" /\ OnlyKaomojiBrackets(stem)) =>
        /\ Tokenized
        /\ stem_info.tags = <<>>
        /\ KaomojiCount(stem_info.title) = KaomojiCount(stem)
        /\ StripSeps(stem_info.title) = StripSeps(stem)

C7_Witness ==
    /\ Tokenized /\ OnlyKaomojiBrackets(stem)
    /\ KaomojiCount(stem) >= 1 /\ Len(stem) > 4
    /\ stem_info.tags = <<>>

\* C8: the tags are, group by group from left to right, the pieces of the
\* group's content split on commas and plus signs, in order, without the
\* empty pieces; so no tag is empty and none triggers the blank-tag error.
C8_TagsAreGroupPieces ==
    Tokenized =>
        /\ stem_info.tags = RefTags(stem)
        /\ \A k \in 1..Len(stem_info.tags) :
              /\ stem_info.tags[k] # ""
              /\ ~BlankTagCheck(stem_info.tags[k])

C8_Witness ==
    /\ Tokenized
    /\ Len(stem_info.tags) = 1
    /\ \E i \in Positions(stem) : CharAt(stem, i) \in {",", "+"} /\ i > 1
    /\ Len(RefGroups(stem, 1)) = 1
    /\ Len(SplitOn(RefGroups(stem, 1)[1], {",", "+"}, 1, "")) = 2

\* C9: the title is the text outside the bracket groups, its segments joined
\* by exactly one space: no leading or trailing separator, no underscore, no
\* two spaces in a row, and a bracket group (even an empty one) between two
\* segments separates them like one space.
C9_TitleSingleSpaced ==
    Tokenized =>
        LET title == stem_info.title
        IN  /\ title = RefTitle(stem)
            /\ CharAt(title, 1) # " " /\ CharAt(title, Len(title)) # " "
            /\ \A i \in Positions(title) :
                  /\ CharAt(title, i) # "_"
                  /\ Slice(title, i, i + 2) # "  "

C9_Witness ==
    /\ Tokenized
    /\ \E i \in Positions(stem) : Slice(stem, i, i + 2) = "()" /\ i > 1
    /\ stem_info.title = "a a"

\* the characters of the groups of a well-formed stem, and those of the
\* text outside them, separators dropped
InsideText(s) == StripSeps(Join(RefGroups(s, 1), ""))
OutsideText(s) == StripSeps(RefOutside(s, 1))

\* C10 as stated: title and tags keep every character of the stem that is
\* not a bracket, whitespace or an underscore, in order.
C10_KeepsAllContent ==
    Tokenized =>
        /\ StripSeps(stem_info.title) = OutsideText(stem)
        /\ StripSeps(Join(stem_info.tags, "")) = InsideText(stem)

\* C10 amended: the title keeps, in order, every character outside the
\* groups that is not whitespace or an underscore; the tags keep, in order,
\* every character inside the groups that is not whitespace, an underscore,
\* a comma or a plus sign.
C10_KeepsContentButCommas ==
    Tokenized =>
        /\ StripSeps(stem_info.title) = OutsideText(stem)
        /\ StripSeps(Join(stem_info.tags, ""))
              = StripChars(InsideText(stem), {",", "+"})

C10_Witness ==
    /\ Tokenized
    /\ Len(stem_info.tags) >= 1 /\ stem_info.title # ""
    /\ InsideText(stem) # StripChars(InsideText(stem), {",", "+"})

(***************************************************************************)
(* Reference definitions used to state the properties of the classifier.   *)
(***************************************************************************)
\* the tags classified so far
Classified == SubSeq(stem_info.tags, 1, tag_index - 1)

\* the call is past the tokenizer and has not failed
Classifying == pc \in {"tokenized", "done"}

\* the value the recognizer reads from the tag, "" if it does not match it
Reads(name, tag) == ParserCall(name, tag).value

GroupNamesOf(g) == {TAG_MATCHERS[g][k] : k \in 1..Len(TAG_MATCHERS[g])}

\* some recognizer of group g matches the tag
GroupMatches(g, tag) == \E name \in GroupNamesOf(g) : Reads(name, tag) # ""

MatchingGroups(tag) == {g \in 1..Len(TAG_MATCHERS) : GroupMatches(g, tag)}

\* the first group that matches the tag, 0 if no group does
FirstMatchingGroup(tag) ==
    LET m == MatchingGroups(tag)
    IN  IF m = {} THEN 0 ELSE CHOOSE g \in m : \A h \in m : g <= h

\* FirstMatchingGroup on the tags of the vocabulary, computed once
FirstMatchingGroupTable ==
    [tag \in TagVocabulary |-> FirstMatchingGroup(tag)]

ClaimingGroup(tag) ==
    IF tag \in TagVocabulary THEN FirstMatchingGroupTable[tag]
    ELSE FirstMatchingGroup(tag)

\* the recognizer belongs to the first group matching the tag and matches it
ClaimedBy(name, tag) ==
    /\ ClaimingGroup(tag) # 0
    /\ name \in GroupNamesOf(ClaimingGroup(tag))
    /\ Reads(name, tag) # ""

\* where a tag has to go
Destination(tag) ==
    IF ClaimingGroup(tag) # 0 THEN "recognizer"
    ELSE IF tag \in Language THEN "language"
    ELSE IF tag \in Region THEN "region"
    ELSE "residual"

IsResidual(tag) == Destination(tag) = "residual"

\* the fields that hold one tag only
SingleValued == MatcherNames \ {"disc_number"}

\* the number a disc-number tag resolves to
DiscNumberOf(tag) == ToInt(Reads("disc_number", tag))

(***************************************************************************)
(* Properties of Metadata.from_stem, checked under Spec.                   *)
(***************************************************************************)
\* C1: every tag classified goes to exactly one destination: the fields of
\* the first recognizer group matching it, else the language set, else the
\* region set, else the unhandled list.  The unhandled list is exactly the
\* residual tags in order (none dropped, none counted twice, none of them
\* claimed), and every field value comes from a tag its recognizer claimed.
C1_EveryTagRouted ==
    Classifying =>
        /\ unhandled_tag_values = SelectSeq(Classified, IsResidual)
        /\ languages = {t \in ValuesOf(Classified) : Destination(t) = "language"}
        /\ regions = {t \in ValuesOf(Classified) : Destination(t) = "region"}
        /\ \A k \in 1..Len(Classified) :
              \A name \in MatcherNames :
                  ClaimedBy(name, Classified[k])
                      => matchers[name] = Reads(name, Classified[k])
        /\ \A name \in MatcherNames :
              matchers[name] # ""
                  => \E k \in 1..Len(Classified) :
                        /\ ClaimedBy(name, Classified[k])
                        /\ matchers[name] = Reads(name, Classified[k])
        /\ pc = "done" =>
              /\ Classified = stem_info.tags
              /\ metadata.unit.entity.unhandled_tags
                    = {t \in ValuesOf(stem_info.tags) : IsResidual(t)}
              /\ metadata.unit.localization.languages = languages
              /\ metadata.unit.localization.regions = regions

C1_Witness ==
    /\ pc = "done"
    /\ Len(stem_info.tags) = 2
    /\ \E k \in 1..2 : Destination(stem_info.tags[k]) = "recognizer"
    /\ \E k \in 1..2 : Destination(stem_info.tags[k]) # "recognizer"
    /\ Len(unhandled_tag_values) + Cardinality(languages \cup regions) = 1
    /\ \E name \in MatcherNames : matchers[name] # ""

\* C2 as stated: no call goes on past a second tag that matches the
\* recognizer of a field, other than the disc number, that an earlier tag
\* populated.
C2_SecondMatchFails ==
    Classifying =>
        \A name \in SingleValued :
            \A i, j \in 1..Len(Classified) :
                ~ /\ i < j
                  /\ ClaimedBy(name, Classified[i])
                  /\ Reads(name, Classified[j]) # ""

\* C2 amended: no call goes on past a second tag claimed by the recognizer
\* of a field, other than the disc number, that an earlier tag populated
\* (the recognizer matches the tag and belongs to the first group that
\* matches it); the call fails on that tag and returns no Metadata.
C2_SecondClaimFails ==
    /\ Classifying =>
          \A name \in SingleValued :
              \A i, j \in 1..Len(Classified) :
                  ~ /\ i < j
                    /\ ClaimedBy(name, Classified[i])
                    /\ ClaimedBy(name, Classified[j])
    /\ pc = "failed" => error # "" /\ metadata = NoMetadata
    /\ (pc = "failed" /\ error = "Multiple equivalent tags") =>
          \E name \in SingleValued :
              /\ matchers[name] # ""
              /\ ClaimedBy(name, stem_info.tags[tag_index])

C2_Witness ==
    /\ pc = "failed" /\ error = "Multiple equivalent tags"
    /\ matchers["revision"] = "1"
    /\ stem_info.tags[tag_index] = "Rev 2"
    /\ metadata = NoMetadata

\* C3 as stated: a call whose tags are all claimed by the disc-number
\* recognizer alone succeeds if and only if all of them resolve to the same
\* number.
C3_SameNumberIffSucceeds ==
    ( /\ pc \in {"done", "failed"}
      /\ Len(stem_info.tags) >= 2
      /\ \A k \in 1..Len(stem_info.tags) :
            /\ ClaimedBy("disc_number", stem_info.tags[k])
            /\ ~ClaimedBy("disc_name", stem_info.tags[k]) )
    => ( pc = "done" <=>
            \A i, j \in 1..Len(stem_info.tags) :
                DiscNumberOf(stem_info.tags[i]) = DiscNumberOf(stem_info.tags[j]) )

\* C4: a step that classifies a tag sets the fields of the recognizers that
\* match it in the first matching group and leaves every other field as it
\* was, the fields of later matching groups included; the language set, the
\* region set and the unhandled list change only when no group matched.
C4_FirstGroupWins ==
    [][ (pc = "tokenized" /\ tag_index <= Len(stem_info.tags) /\ pc' # "failed") =>
            LET tag == stem_info.tags[tag_index]
            IN  /\ \A name \in MatcherNames :
                      matchers'[name] = IF ClaimedBy(name, tag)
                                        THEN Reads(name, tag)
                                        ELSE matchers[name]
                /\ ClaimingGroup(tag) # 0 =>
                      /\ languages' = languages
                      /\ regions' = regions
                      /\ unhandled_tag_values' = unhandled_tag_values
                /\ ClaimingGroup(tag) = 0 =>
                      tag \in languages' \cup regions'
                              \cup ValuesOf(unhandled_tag_values')
      ]_vars

C4_Witness ==
    /\ Classifying
    /\ tag_index > 1
    /\ LET tag == stem_info.tags[tag_index - 1]
       IN  /\ Cardinality(MatchingGroups(tag)) >= 2
           /\ \E g, h \in MatchingGroups(tag) :
                 /\ g < h
                 /\ \A name \in GroupNamesOf(g) :
                       Reads(name, tag) # "" => matchers[name] = Reads(name, tag)
                 /\ \A name \in GroupNamesOf(h) : matchers[name] = ""

(***************************************************************************)
(* Properties of the tokenizer called on its own title, checked under      *)
(* SpecTitle.                                                              *)
(***************************************************************************)
\* C11: tokenizing a title returned by StemInfo.from_stem returns that same
\* title and no tags.
C11_TitleIsFixedPoint ==
    pc = "retokenized" =>
        /\ output.error = ""
        /\ output.title = stem_info.title
        /\ output.tags = <<>>

C11_Witness ==
    /\ pc = "retokenized"
    /\ stem_info.tags # <<>>
    /\ Len(stem_info.title) >= 3
    /\ stem # stem_info.title
    /\ output.title = stem_info.title

(***************************************************************************)
(* Localization: english_priority and the sort key that decides equality,  *)
(* order and hash.                                                         *)
(***************************************************************************)
\* any_english: one of the three English languages is among the languages
any_english(langs) == "En-US" \in langs \/ "En" \in langs \/ "En-GB" \in langs

\* only an English language lets a region count
only_with_english(langs) == any_english(langs)

\* not_only_nonenglish = not self.languages or any_english
not_only_nonenglish(langs) == langs = {} \/ any_english(langs)

\* Localization.english_priority
english_priority(regs, langs) ==
    IF "USA" \in regs /\ not_only_nonenglish(langs) THEN 1
    ELSE IF "En-US" \in langs THEN 2
    ELSE IF "En" \in langs THEN 3
    ELSE IF "En-GB" \in langs THEN 4
    ELSE IF not_only_nonenglish(langs) /\ "Canada" \in regs THEN 5
    ELSE IF not_only_nonenglish(langs) /\ "UK" \in regs THEN 6
    ELSE IF not_only_nonenglish(langs) /\ "Australia" \in regs THEN 7
    ELSE IF not_only_nonenglish(langs) /\ "New Zealand" \in regs THEN 8
    ELSE IF not_only_nonenglish(langs) /\ "Europe" \in regs THEN 9
    ELSE 0

\* the characters of the model in the order of their code points
CodeOrder == " -.0123456789ABCDEFGHIJKLMNOPQRSTUVWXYZ[]_abcdefghijklmnopqrstuvwxyz"

\* the position of each of the characters in that order
OrdTable ==
    [c \in {CharAt(CodeOrder, i) : i \in 1..Len(CodeOrder)} |->
        CHOOSE i \in 1..Len(CodeOrder) : CharAt(CodeOrder, i) = c]

\* ord(c), up to an increasing renumbering
Ord(c) == OrdTable[c]

RECURSIVE StrLessFrom(_, _, _)
\* a < b for two strings, compared from position i on
StrLessFrom(a, b, i) ==
    IF i > Len(b) THEN FALSE
    ELSE IF i > Len(a) THEN TRUE
    ELSE IF CharAt(a, i) = CharAt(b, i) THEN StrLessFrom(a, b, i + 1)
    ELSE Ord(CharAt(a, i)) < Ord(CharAt(b, i))

\* str.__lt__
StrLess(a, b) == StrLessFrom(a, b, 1)

\* the least string of a set that is not empty
MinStr(set) == CHOOSE x \in set : \A y \in set \ {x} : StrLess(x, y)

RECURSIVE sorted(_)
\* tuple(sorted(values)) for a set of strings
sorted(values) ==
    IF values = {} THEN <<>>
    ELSE <<MinStr(values)>> \o sorted(values \ {MinStr(values)})

\* a sort key that leaves the languages out
SortKeyWithoutLanguages(regs, langs) ==
    <<english_priority(regs, langs), sorted(regs), <<>> >>

\* Localization.__post_init__: the value of _sort_key
Localization_sort_key(regs, langs) ==
    <<english_priority(regs, langs), sorted(regs), sorted(langs)>>

\* Localization(regions=frozenset(...), languages=frozenset(...))
Localization(region_list, language_list) ==
    [regions |-> ValuesOf(region_list),
     languages |-> ValuesOf(language_list),
     _sort_key |-> Localization_sort_key(ValuesOf(region_list),
                                         ValuesOf(language_list))]

\* the __eq__ that dataclass(eq=True) writes: only _sort_key has compare=True
Localization_eq(x, y) == <<x._sort_key>> = <<y._sort_key>>

\* the argument of hash() in the __hash__ that dataclass(frozen=True, eq=True)
\* writes; equal arguments hash equal
Localization_hash_of(x) == <<x._sort_key>>

\* the regions and languages english_priority is called with
PriorityRegions ==
    {"USA", "Canada", "UK", "Australia", "New Zealand", "Europe", "Japan"}
PriorityLanguages == {"En-US", "En", "En-GB", "Ja", "Fr"}

InitPriority ==
    /\ stem = ""
    /\ args = NoArgs
    /\ input \in [call : {"english_priority"}, regions : SUBSET PriorityRegions,
                   languages : SUBSET PriorityLanguages]
    /\ InitCommon

\* output = Localization(regions, languages).english_priority()
EnglishPriorityCall ==
    /\ pc = "start"
    /\ input.call = "english_priority"
    /\ output' = [raised |-> "",
                  value |-> english_priority(input.regions, input.languages)]
    /\ pc' = "returned"
    /\ UNCHANGED <<stem, args, stem_info, error, tag_index, matchers, languages,
                   regions, unhandled_tag_values, metadata, input, dat>>

NextPriority == EnglishPriorityCall
SpecPriority == InitPriority /\ [][NextPriority]_vars

\* the longest list a frozenset of a Localization is built from
MaxListLen == 2

RECURSIVE ListsOf(_, _)
\* the lists of at most n members of a set, repeats allowed
ListsOf(set, n) ==
    IF n = 0 THEN {<<>>}
    ELSE ListsOf(set, n - 1)
         \cup {Append(l, x) : l \in {m \in ListsOf(set, n - 1) : Len(m) = n - 1},
                              x \in set}

\* the regions and languages the two compared Localizations are built from
ComparedRegions == {"USA", "Japan"}
ComparedLanguages == {"En", "Ja"}

LocalizationArgs ==
    [regions : ListsOf(ComparedRegions, MaxListLen),
     languages : ListsOf(ComparedLanguages, MaxListLen)]

InitLocalization ==
    /\ stem = ""
    /\ args = NoArgs
    /\ input \in [call : {"Localization.__eq__"}, a : LocalizationArgs,
                   b : LocalizationArgs]
    /\ InitCommon

\* the two values built, and the result of a == b
CompareOf(a, b) == [a |-> a, b |-> b, equal |-> Localization_eq(a, b)]

\* a = Localization(...); b = Localization(...); output = (a == b)
CompareLocalizations ==
    /\ pc = "start"
    /\ input.call = "Localization.__eq__"
    /\ output' = [raised |-> "",
                  value |-> CompareOf(
                      Localization(input.a.regions, input.a.languages),
                      Localization(input.b.regions, input.b.languages))]
    /\ pc' = "returned"
    /\ UNCHANGED <<stem, args, stem_info, error, tag_index, matchers, languages,
                   regions, unhandled_tag_values, metadata, input, dat>>

NextLocalization == CompareLocalizations
SpecLocalization == InitLocalization /\ [][NextLocalization]_vars

(***************************************************************************)
(* The ranking of english_priority, read as a table: the rank of the first *)
(* row whose condition holds, 0 when none does.                            *)
(***************************************************************************)
EnglishLanguages == {"En-US", "En", "En-GB"}

\* no language at all, or some English language
CountsAsEnglish(langs) == langs = {} \/ langs \cap EnglishLanguages # {}

\* rows 1 to 8
RankTable(regs, langs) ==
    << "USA" \in regs /\ CountsAsEnglish(langs),
       "En-US" \in langs,
       "En" \in langs,
       "En-GB" \in langs,
       CountsAsEnglish(langs) /\ "Canada" \in regs,
       CountsAsEnglish(langs) /\ "UK" \in regs,
       CountsAsEnglish(langs) /\ "Australia" \in regs,
       CountsAsEnglish(langs) /\ "New Zealand" \in regs >>

\* rows 1 to 8 and a ninth row for Europe
RankTableWithEurope(regs, langs) ==
    Append(RankTable(regs, langs), CountsAsEnglish(langs) /\ "Europe" \in regs)

\* the first row that holds, 0 when none does
FirstRow(table) ==
    IF \E k \in 1..Len(table) : table[k]
    THEN CHOOSE k \in 1..Len(table) : table[k] /\ \A j \in 1..(k - 1) : ~table[j]
    ELSE 0

PriorityReturned == pc = "returned" /\ input.call = "english_priority"

\* C12: english_priority returns the rank of the first row that holds among
\* USA-and-English 1, American English 2, English 3, British English 4,
\* Canada 5, UK 6, Australia 7, New Zealand 8, and 0 in every other case.
C12_RankIsTable ==
    PriorityReturned =>
        output.value = FirstRow(RankTable(input.regions, input.languages))

\* C12 as amended: the same table with a ninth row, Europe, under the same
\* condition on the languages as rows 5 to 8; 0 in every other case.
C12_RankIsTableWithEurope ==
    PriorityReturned =>
        output.value = FirstRow(RankTableWithEurope(input.regions, input.languages))

C12_Witness ==
    /\ PriorityReturned
    /\ "Europe" \in input.regions
    /\ "New Zealand" \notin input.regions
    /\ input.languages = {"En-GB", "Fr"}
    /\ output.value = 4

LocalizationsCompared == pc = "returned" /\ input.call = "Localization.__eq__"

SameSets(a, b) == a.regions = b.regions /\ a.languages = b.languages

\* C13: two Localization values are equal, and hash the same key, exactly
\* when their region sets and their language sets are the same, whatever the
\* order the sets were built in; english_priority then agrees too.
C13_EqualIffSameSets ==
    LocalizationsCompared =>
        /\ output.value.equal <=> SameSets(output.value.a, output.value.b)
        /\ SameSets(output.value.a, output.value.b) =>
              /\ Localization_hash_of(output.value.a)
                     = Localization_hash_of(output.value.b)
              /\ output.value.a._sort_key[1] = output.value.b._sort_key[1]
        /\ Localization_hash_of(output.value.a) = Localization_hash_of(output.value.b)
              => output.value.equal

C13_Witness ==
    /\ LocalizationsCompared
    /\ input.a.regions = <<"USA", "Japan">>
    /\ input.b.regions = <<"Japan", "USA">>
    /\ input.a.languages = <<"Ja", "En">>
    /\ input.b.languages = <<"En", "Ja">>
    /\ output.value.equal
    /\ output.value.a._sort_key = <<1, <<"Japan", "USA">>, <<"En", "Ja">> >>

(***************************************************************************)
(* disc_number_to_int on its own.                                          *)
(***************************************************************************)
\* the texts disc_number_to_int is called with: digits, Roman numerals,
\* single letters of both cases, counting words, and texts that are none
DiscNumberTexts ==
    {"0", "1", "2", "7", "01", "10", "20", "123"}
    \cup ValuesOf(_EARLY_ROMAN_NUMERALS)
    \cup {CharAt(LowerLetters, i) : i \in 1..Len(LowerLetters)}
    \cup {CharAt(UpperLetters, i) : i \in 1..Len(UpperLetters)}
    \cup ValuesOf(Flatten(_EARLY_JAPANESE_NUMBERS))
    \cup {"ICHI", "Ni", "San", "IIII", "XXI", "ii", "Xi", "ab", "1a", "a1", "-", ""}

InitDisc ==
    /\ stem = ""
    /\ args = NoArgs
    /\ input \in {[call |-> "disc_number_to_int", number |-> t] :
                     t \in DiscNumberTexts}
    /\ InitCommon

\* output = disc_number_to_int(number)
DiscNumberCall ==
    /\ pc = "start"
    /\ input.call = "disc_number_to_int"
    /\ output' = [raised |-> "", value |-> disc_number_to_int(input.number)]
    /\ pc' = "returned"
    /\ UNCHANGED <<stem, args, stem_info, error, tag_index, matchers, languages,
                   regions, unhandled_tag_values, metadata, input, dat>>

NextDisc == DiscNumberCall
SpecDisc == InitDisc /\ [][NextDisc]_vars

(***************************************************************************)
(* The resolution order of disc-number text, as the claim words it.        *)
(***************************************************************************)
RomanValues ==
    << <<"I", 1>>, <<"II", 2>>, <<"III", 3>>, <<"IV", 4>>, <<"V", 5>>,
       <<"VI", 6>>, <<"VII", 7>>, <<"VIII", 8>>, <<"IX", 9>>, <<"X", 10>>,
       <<"XI", 11>>, <<"XII", 12>>, <<"XIII", 13>>, <<"XIV", 14>>, <<"XV", 15>>,
       <<"XVI", 16>>, <<"XVII", 17>>, <<"XVIII", 18>>, <<"XIX", 19>>, <<"XX", 20>> >>

CountingWords ==
    << <<"ichi", 1>>, <<"ni", 2>>, <<"san", 3>>, <<"shi", 4>>, <<"yon", 4>>,
       <<"go", 5>>, <<"roku", 6>>, <<"shichi", 7>>, <<"nana", 7>>, <<"hachi", 8>>,
       <<"ku", 9>>, <<"kyu", 9>>, <<"ju", 10>> >>

HasEntry(table, word) == \E k \in 1..Len(table) : table[k][1] = word
EntryOf(table, word) == table[CHOOSE k \in 1..Len(table) : table[k][1] = word][2]

AlphabetLetters == "abcdefghijklmnopqrstuvwxyz"
CapitalLetters == "ABCDEFGHIJKLMNOPQRSTUVWXYZ"

\* the 1-based position of a letter of either case in the alphabet, 0 for
\* anything else
AlphabetPosition(c) ==
    IF \E i \in 1..26 : c \in {CharAt(AlphabetLetters, i), CharAt(CapitalLetters, i)}
    THEN CHOOSE i \in 1..26 :
             c \in {CharAt(AlphabetLetters, i), CharAt(CapitalLetters, i)}
    ELSE 0

RECURSIVE Uncapitalized(_)
Uncapitalized(word) ==
    IF word = "" THEN ""
    ELSE LET c == CharAt(word, 1)
             n == AlphabetPosition(c)
         IN  (IF n # 0 THEN CharAt(AlphabetLetters, n) ELSE c)
             \o Uncapitalized(Slice(word, 2, Len(word) + 1))

AllDigits(text) ==
    text # "" /\ \A i \in 1..Len(text) : CharAt(text, i) \in
        {"0", "1", "2", "3", "4", "5", "6", "7", "8", "9"}

\* digits, else Roman numeral, else single letter by its 1-based position,
\* else counting word, else unresolved
ResolvedDiscNumber(text) ==
    IF AllDigits(text) THEN text
    ELSE IF HasEntry(RomanValues, text) THEN ToStr(EntryOf(RomanValues, text))
    ELSE IF Len(text) = 1 /\ AlphabetPosition(text) # 0
    THEN ToStr(AlphabetPosition(text))
    ELSE IF HasEntry(CountingWords, Uncapitalized(text))
    THEN ToStr(EntryOf(CountingWords, Uncapitalized(text)))
    ELSE ""

\* the same with the single letter counted from zero
ResolvedDiscNumberFromZero(text) ==
    IF ~AllDigits(text) /\ ~HasEntry(RomanValues, text)
       /\ Len(text) = 1 /\ AlphabetPosition(text) # 0
    THEN ToStr(AlphabetPosition(text) - 1)
    ELSE ResolvedDiscNumber(text)

DiscNumberReturned == pc = "returned" /\ input.call = "disc_number_to_int"

\* C14: disc_number_to_int returns a digit string as it is, else the value of
\* an uppercase Roman numeral I..XX, else the 1-based alphabet position of a
\* single letter (a is 1, b is 2), else the number 1..10 of a Japanese
\* counting word, else the empty text; I, V and X resolve as Roman numerals.
C14_ResolutionOrder ==
    DiscNumberReturned => output.value = ResolvedDiscNumber(input.number)

\* what the code does where C14 fails: every text resolves as C14 says except
\* that a single letter that is no Roman numeral is counted from zero
C14_LettersFromZero ==
    DiscNumberReturned => output.value = ResolvedDiscNumberFromZero(input.number)

C14_Witness ==
    /\ DiscNumberReturned
    /\ input.number = "V"
    /\ output.value = "5"

(***************************************************************************)
(* Metadata.from_stem on a title followed by one date tag.                 *)
(***************************************************************************)
\* the parts a date tag is written from: a year, and after a separator a
\* month and a day, each of which may be left out ("") with all after it
DateYears == {"1999", "2024"}
DateSeparators == {"-", "."}
DateMonths == {"", "1", "02", "12", "13", "XX", "xx"}
DateDays == {"", "1", "28", "30", "XX"}

DateParts ==
    {d \in [year : DateYears, sep : DateSeparators, month : DateMonths,
            day : DateDays] :
        /\ d.month = "" => d.day = ""
        /\ d.month = "" => d.sep = "-"}

\* the tag written from the parts
DateTag(d) ==
    d.year \o (IF d.month = "" THEN "" ELSE d.sep \o d.month)
           \o (IF d.day = "" THEN "" ELSE d.sep \o d.day)

InitDate ==
    /\ input \in {[call |-> "Metadata.from_stem", date |-> d] : d \in DateParts}
    /\ stem = "T (" \o DateTag(input.date) \o ")"
    /\ args = NoArgs
    /\ InitCommon

NextDate == Tokenize \/ ClassifyTag \/ Build
SpecDate == InitDate /\ [][NextDate]_vars

(***************************************************************************)
(* The calendar date a date tag stands for.                                *)
(***************************************************************************)
\* a missing or XX month or day is 1
PartValue(part) == IF part \in {"", "XX", "xx"} THEN 1 ELSE ToInt(part)

TwoDigits(n) == IF n < 10 THEN "0" \o ToStr(n) ELSE ToStr(n)

MonthLengths == <<31, 28, 31, 30, 31, 30, 31, 31, 30, 31, 30, 31>>

\* the month and the day exist in the calendar (no year of the model is a
\* leap year with a 29th of February asked for)
IsCalendarDate(d) ==
    /\ PartValue(d.month) \in 1..12
    /\ PartValue(d.day) \in 1..MonthLengths[PartValue(d.month)]

CalendarDate(d) ==
    d.year \o "-" \o TwoDigits(PartValue(d.month)) \o "-" \o TwoDigits(PartValue(d.day))

DateCallEnded ==
    /\ pc \in {"done", "failed"}
    /\ input.call = "Metadata.from_stem"
    /\ IsCalendarDate(input.date)

\* C15: a tag YYYY, YYYY-MM or YYYY-MM-DD, with "-" or "." between the
\* parts, is classified as the edition date without failing, and the date is
\* the calendar date with a missing or XX month or day taken as 1.
C15_DateTagsParse ==
    DateCallEnded =>
        /\ pc = "done"
        /\ metadata.unit.entity.variation.edition.date = CalendarDate(input.date)
        /\ metadata.unit.entity.unhandled_tags = {}

\* what the code does where C15 fails: the tags with a month and a day parse
\* as C15 says, the tags without a day fail
C15_OnlyFullDatesParse ==
    DateCallEnded =>
        IF input.date.day # ""
        THEN /\ pc = "done"
             /\ metadata.unit.entity.variation.edition.date = CalendarDate(input.date)
        ELSE pc = "failed" /\ error = "AttributeError"

C15_Witness ==
    /\ DateCallEnded
    /\ input.date = [year |-> "1999", sep |-> ".", month |-> "XX", day |-> "XX"]
    /\ metadata.unit.entity.variation.edition.date = "1999-01-01"

(***************************************************************************)
(* Tags.__str__.  The values are a frozenset of str and __str__ iterates   *)
(* it as it is: the order of that iteration follows the hashes of the      *)
(* strings, which change from one run of the interpreter to the next, so   *)
(* any order of the values can come out.                                   *)
(***************************************************************************)
RECURSIVE Orderings(_)
\* the orders in which the members of a set can be iterated
Orderings(set) ==
    IF set = {} THEN {<<>>}
    ELSE UNION {{<<x>> \o rest : rest \in Orderings(set \ {x})} : x \in set}

RECURSIVE Bracketed(_)
\* [f"[{value}]" for value in values]
Bracketed(values) ==
    IF values = <<>> THEN <<>>
    ELSE <<"[" \o Head(values) \o "]">> \o Bracketed(Tail(values))

\* Tags.__str__ when the iteration of self.values goes in the given order
Tags_str(iterated) ==
    IF iterated # <<>> THEN Join(Bracketed(iterated), " ") ELSE "<Untagged>"

\* the residual tags a Tags is made of
ResidualWords == {"b", "a", "Beta", "a1", "Proto"}

InitTags ==
    /\ stem = ""
    /\ args = NoArgs
    /\ input \in {[call |-> "Tags.__str__", values |-> v] :
                     v \in SUBSET ResidualWords}
    /\ InitCommon

\* output = str(Tags(values))
RenderTags ==
    /\ pc = "start"
    /\ input.call = "Tags.__str__"
    /\ \E iterated \in Orderings(input.values) :
           output' = [raised |-> "", value |-> Tags_str(iterated)]
    /\ pc' = "returned"
    /\ UNCHANGED <<stem, args, stem_info, error, tag_index, matchers, languages,
                   regions, unhandled_tag_values, metadata, input, dat>>

NextTags == RenderTags
SpecTags == InitTags /\ [][NextTags]_vars

TagsRendered == pc = "returned" /\ input.call = "Tags.__str__"

\* the tags in lexicographic order, each in brackets, a space between them
LexicographicRendering(values) == Join(Bracketed(sorted(values)), " ")

\* C16: a residual tag set renders as its tags in lexicographic order, so
\* the same members always give the same string, and the empty set renders
\* as the untagged sentinel.
C16_RendersSorted ==
    TagsRendered =>
        IF input.values = {} THEN output.value = "<Untagged>"
        ELSE output.value = LexicographicRendering(input.values)

\* what the code does where C16 fails: the empty set and the sets of one tag
\* render as C16 says
C16_RendersUpToOneTag ==
    (TagsRendered /\ Cardinality(input.values) <= 1) =>
        IF input.values = {} THEN output.value = "<Untagged>"
        ELSE output.value = LexicographicRendering(input.values)

(***************************************************************************)
(* Game of parse.py.  A value that may be None is a list of no member or   *)
(* of one; a Metadata is the record Metadata.from_stem builds, and an      *)
(* attribute it has no field for raises AttributeError.                    *)
(***************************************************************************)
\* "return None" and "return x"
ReturnedNone == [raised |-> "", value |-> <<>>]
ReturnedOne(x) == [raised |-> "", value |-> <<x>>]
ReturnedList(list) == [raised |-> "", value |-> list]
RaisedError(e) == [raised |-> e, value |-> <<>>]

\* obj.name exists: Metadata is a dataclass with the fields unit, unlicensed,
\* bad_dump, category, stem, id and cloneofid and no other attribute of the
\* names parse.py reads
HasAttribute(obj, name) == name \in DOMAIN obj

\* bool and int as the int they compare as
BoolInt(b) == IF b THEN 1 ELSE 0

\* the year, the month and the day of a datetime.date, held as its ISO text
Year(d) == ToInt(SubSeq(d, 1, 4))
Month(d) == ToInt(SubSeq(d, 6, 7))
Day(d) == ToInt(SubSeq(d, 9, 10))

\* a < b of two datetime.date
datetime_lt(a, b) ==
    \/ Year(a) < Year(b)
    \/ Year(a) = Year(b) /\ Month(a) < Month(b)
    \/ Year(a) = Year(b) /\ Month(a) = Month(b) /\ Day(a) < Day(b)

\* Date.__lt__ on the dates of two Date, "" being None:
\* (self.date is None, self.date) < (other.date is None, other.date)
Date_lt(a, b) ==
    IF (a = "") # (b = "") THEN BoolInt(a = "") < BoolInt(b = "")
    ELSE IF a = "" THEN FALSE
    ELSE datetime_lt(a, b)

\* (variation, unhandled_tags) as the dataclass order of Entity, Variation,
\* Edition, Disc and Tags compares them, field by field: the ints and bools,
\* the strs, the Date, and the sorted values of the tags
EntityInts(e) ==
    << BoolInt(e.variation.edition.arcade), BoolInt(e.variation.edition.debug),
       e.variation.edition.alternate, BoolInt(e.variation.edition.wii),
       BoolInt(e.variation.edition.switch), BoolInt(e.variation.edition.steam),
       BoolInt(e.variation.edition.virtual_console),
       BoolInt(e.variation.edition.classic_mini),
       BoolInt(e.variation.edition.nintendo_power), e.variation.disc.number >>

EntityStrs(e) ==
    << e.variation.edition.version, e.variation.edition.revision,
       e.variation.edition.prerelease, e.variation.edition.demo,
       e.variation.edition.early, e.variation.disc.name >>

\* the fields in the order of comparison: <<kind, index>> into the ints (1)
\* or the strs (2), or the date of the edition (3)
EntityFieldOrder ==
    << <<1, 1>>, <<2, 1>>, <<2, 2>>, <<2, 3>>, <<2, 4>>, <<2, 5>>, <<1, 2>>,
       <<3, 1>>, <<1, 3>>, <<1, 4>>, <<1, 5>>, <<1, 6>>, <<1, 7>>, <<1, 8>>,
       <<1, 9>>, <<2, 6>>, <<1, 10>> >>

RECURSIVE TupleLessFrom(_, _, _)
\* a < b for two tuples of str, compared from position i on
TupleLessFrom(a, b, i) ==
    IF i > Len(b) THEN FALSE
    ELSE IF i > Len(a) THEN TRUE
    ELSE IF a[i] = b[i] THEN TupleLessFrom(a, b, i + 1)
    ELSE StrLess(a[i], b[i])

RECURSIVE EntityLessFrom(_, _, _)
EntityLessFrom(x, y, i) ==
    IF i > Len(EntityFieldOrder)
    THEN TupleLessFrom(sorted(x.unhandled_tags), sorted(y.unhandled_tags), 1)
    ELSE IF EntityFieldOrder[i][1] = 1
    THEN IF EntityInts(x)[EntityFieldOrder[i][2]] = EntityInts(y)[EntityFieldOrder[i][2]]
         THEN EntityLessFrom(x, y, i + 1)
         ELSE EntityInts(x)[EntityFieldOrder[i][2]] < EntityInts(y)[EntityFieldOrder[i][2]]
    ELSE IF EntityFieldOrder[i][1] = 3
    THEN IF x.variation.edition.date = y.variation.edition.date
         THEN EntityLessFrom(x, y, i + 1)
         ELSE Date_lt(x.variation.edition.date, y.variation.edition.date)
    ELSE IF EntityStrs(x)[EntityFieldOrder[i][2]] = EntityStrs(y)[EntityFieldOrder[i][2]]
         THEN EntityLessFrom(x, y, i + 1)
         ELSE StrLess(EntityStrs(x)[EntityFieldOrder[i][2]],
                      EntityStrs(y)[EntityFieldOrder[i][2]])

\* Entity.__lt__
Entity_lt(x, y) == EntityLessFrom(x, y, 1)

\* the Entity of an Edition with the default Disc and no tag
EntityOfEdition(edition) ==
    [variation |-> [edition |-> edition, disc |-> Disc(NoValues)],
     unhandled_tags |-> {}]

\* Edition.__lt__: the fields of the Edition are the first the order of two
\* Entities compares
Edition_lt(a, b) == Entity_lt(EntityOfEdition(a), EntityOfEdition(b))

RECURSIVE InsertByEntity(_, _)
\* the member put after every member of the sorted list whose key is not
\* greater: sorted() is stable
InsertByEntity(list, m) ==
    IF list = <<>> THEN <<m>>
    ELSE IF Entity_lt(m.entity, Head(list).entity) THEN <<m>> \o list
    ELSE <<Head(list)>> \o InsertByEntity(Tail(list), m)

RECURSIVE StableSortByEntity(_, _)
StableSortByEntity(list, done) ==
    IF list = <<>> THEN done
    ELSE StableSortByEntity(Tail(list), InsertByEntity(done, Head(list)))

\* sorted(best_metadata, key=lambda metadata: metadata.entity): the key of
\* every member is read first
SortedByEntity(best_metadata) ==
    IF \E k \in 1..Len(best_metadata) : ~HasAttribute(best_metadata[k], "entity")
    THEN RaisedError("AttributeError")
    ELSE ReturnedList(StableSortByEntity(best_metadata, <<>>))

\* "if best_metadata: return best_metadata[0]" and "return None"
FirstOrNone(r) ==
    IF r.raised # "" THEN r
    ELSE IF r.value # <<>> THEN ReturnedOne(r.value[1])
    ELSE ReturnedNone

RECURSIVE BestVersions(_, _, _, _)
\* the body of the for loop of english_version once priority is known
PriorityStep(versions, k, best_metadata, best_priority, priority) ==
    IF priority = 0 THEN BestVersions(versions, k + 1, best_metadata, best_priority)
    ELSE IF best_metadata = <<>> \/ priority < best_priority
    THEN BestVersions(versions, k + 1, <<versions[k]>>, priority)
    ELSE IF priority = best_priority
    THEN BestVersions(versions, k + 1, Append(best_metadata, versions[k]),
                      best_priority)
    ELSE BestVersions(versions, k + 1, best_metadata, best_priority)

\* "for metadata in versions" from versions[k] on; the first statement reads
\* metadata.localization
BestVersions(versions, k, best_metadata, best_priority) ==
    IF k > Len(versions) THEN ReturnedList(best_metadata)
    ELSE IF ~HasAttribute(versions[k], "localization")
    THEN RaisedError("AttributeError")
    ELSE PriorityStep(versions, k, best_metadata, best_priority,
                      english_priority(versions[k].localization.regions,
                                       versions[k].localization.languages))

\* the statements of english_version after the loop
AfterLoop(r) == IF r.raised # "" THEN r ELSE FirstOrNone(SortedByEntity(r.value))

\* Game.english_version
english_version(versions) == AfterLoop(BestVersions(versions, 1, <<>>, 0))

RECURSIVE GroupByEntity(_, _, _)
\* the dict of entity_to_metadata as the list of its values, in the order
\* the keys were first set
GroupByEntity(versions, k, groups) ==
    IF k > Len(versions) THEN groups
    ELSE IF \E g \in 1..Len(groups) : groups[g][1].entity = versions[k].entity
    THEN GroupByEntity(versions, k + 1,
             [g \in 1..Len(groups) |->
                 IF groups[g][1].entity = versions[k].entity
                 THEN Append(groups[g], versions[k]) ELSE groups[g]])
    ELSE GroupByEntity(versions, k + 1, Append(groups, <<versions[k]>>))

\* Game.entity_to_metadata: the loop reads metadata.entity of every version
entity_to_metadata(versions) ==
    IF \E k \in 1..Len(versions) : ~HasAttribute(versions[k], "entity")
    THEN RaisedError("AttributeError")
    ELSE ReturnedList(GroupByEntity(versions, 1, <<>>))

RECURSIVE BestOfEach(_, _, _)
\* the for loop of english_entities from the g-th entity on
BestOfEach(groups, g, best_versions) ==
    IF g > Len(groups) THEN ReturnedList(best_versions)
    ELSE IF english_version(groups[g]).raised # "" THEN english_version(groups[g])
    ELSE BestOfEach(groups, g + 1, best_versions \o english_version(groups[g]).value)

EntitiesOf(r) == IF r.raised # "" THEN r ELSE BestOfEach(r.value, 1, <<>>)

\* Game.english_entities
english_entities(versions) == EntitiesOf(entity_to_metadata(versions))

\* Metadata.from_stem of a title "T" followed by a disc tag, or none, and
\* by the tags of the regions and of the languages
VersionOf(s, disc_number, regs, langs) ==
    Metadata(s, [error |-> "", title |-> "T", tags |-> <<>>],
             [NoValues EXCEPT !["disc_number"] = disc_number], regs, langs,
             <<>>, NoArgs)

\* the versions of the model, in the order sorted() puts them in
VersionTable ==
    << VersionOf("T (Japan)", "", {"Japan"}, {}),
       VersionOf("T (USA)", "", {"USA"}, {}),
       VersionOf("T (UK)", "", {"UK"}, {}),
       VersionOf("T (Disc 1) (USA)", "1", {"USA"}, {}),
       VersionOf("T (Disc 1) (Europe)", "1", {"Europe"}, {}),
       VersionOf("T (Disc 2) (Japan)", "2", {"Japan"}, {}),
       VersionOf("T (Disc 2) (USA)", "2", {"USA"}, {}) >>

\* the longest list english_version is called with
MaxVersions == 2

InitVersion ==
    /\ stem = ""
    /\ args = NoArgs
    /\ input \in [call : {"english_version"},
                   versions : ListsOf(ValuesOf(VersionTable), MaxVersions)]
    /\ InitCommon

\* output = Game.english_version(versions)
EnglishVersionCall ==
    /\ pc = "start"
    /\ input.call = "english_version"
    /\ output' = english_version(input.versions)
    /\ pc' = "returned"
    /\ UNCHANGED <<stem, args, stem_info, error, tag_index, matchers, languages,
                   regions, unhandled_tag_values, metadata, input, dat>>

NextVersion == EnglishVersionCall
SpecVersion == InitVersion /\ [][NextVersion]_vars

\* the keys the setdefault chain of hierarchy reads for a Metadata, and its
\* title
KeyPath(m) ==
    << m.entity.edition, m.entity.version, m.entity.unhandled_tags,
       m.entity.disc, m.localization, m.title >>

\* the first statement of the loop of hierarchy reads metadata.entity, and of
\* the Entity its edition
ReadsOfHierarchyFail(m) ==
    ~HasAttribute(m, "entity") \/ ~HasAttribute(m.entity, "edition")

RECURSIVE HierarchyFrom(_, _, _)
\* "for metadata in self.versions" of hierarchy from versions[k] on; lookup
\* is the nested dict as the list of its <<key path, metadata>> leaves
HierarchyFrom(versions, k, lookup) ==
    IF k > Len(versions) THEN ReturnedList(lookup)
    ELSE IF ReadsOfHierarchyFail(versions[k]) THEN RaisedError("AttributeError")
    ELSE IF \E l \in 1..Len(lookup) : lookup[l][1] = KeyPath(versions[k])
    THEN RaisedError("ValueError")
    ELSE HierarchyFrom(versions, k + 1,
                       Append(lookup, <<KeyPath(versions[k]), versions[k]>>))

\* Game.hierarchy
hierarchy(versions) == HierarchyFrom(versions, 1, <<>>)

RECURSIVE Picked(_, _)
\* the members of the table at the positions of a set, in the order of the
\* table: Game.__post_init__ keeps self.versions sorted
Picked(positions, k) ==
    IF k > Len(VersionTable) THEN <<>>
    ELSE (IF k \in positions THEN <<VersionTable[k]>> ELSE <<>>)
         \o Picked(positions, k + 1)

\* the versions of a Game: members of the table, or one member twice
GameVersions ==
    {Picked(ps, 1) : ps \in SUBSET (1..Len(VersionTable))}
    \cup {<<VersionTable[k], VersionTable[k]>> : k \in 1..Len(VersionTable)}

InitGame ==
    /\ stem = ""
    /\ args = NoArgs
    /\ input \in [call : {"english_entities", "hierarchy"},
                   versions : GameVersions]
    /\ InitCommon

\* output = game.english_entities()
EnglishEntitiesCall ==
    /\ pc = "start"
    /\ input.call = "english_entities"
    /\ output' = english_entities(input.versions)
    /\ pc' = "returned"
    /\ UNCHANGED <<stem, args, stem_info, error, tag_index, matchers, languages,
                   regions, unhandled_tag_values, metadata, input, dat>>

\* output = game.hierarchy()
HierarchyCall ==
    /\ pc = "start"
    /\ input.call = "hierarchy"
    /\ output' = hierarchy(input.versions)
    /\ pc' = "returned"
    /\ UNCHANGED <<stem, args, stem_info, error, tag_index, matchers, languages,
                   regions, unhandled_tag_values, metadata, input, dat>>

NextGame == EnglishEntitiesCall \/ HierarchyCall
SpecGame == InitGame /\ [][NextGame]_vars

(***************************************************************************)
(* The best English version of a list of Metadata, as the spec words it.   *)
(***************************************************************************)
\* englishPriority of a Metadata: of the localization of its unit
PriorityOf(m) ==
    FirstRow(RankTableWithEurope(m.unit.localization.regions,
                                 m.unit.localization.languages))

\* the release identity of a Metadata: the entity of its unit
IdentityOf(m) == m.unit.entity

English(list) == {list[k] : k \in {j \in 1..Len(list) : PriorityOf(list[j]) # 0}}

\* the members at the least nonzero priority
BestEnglish(list) ==
    {m \in English(list) : \A o \in English(list) : PriorityOf(m) <= PriorityOf(o)}

\* the members of least identity among the best
FirstOfBest(list) ==
    {m \in BestEnglish(list) :
        \A o \in BestEnglish(list) : ~Entity_lt(IdentityOf(o), IdentityOf(m))}

VersionReturned == pc = "returned" /\ input.call = "english_version"

\* C17: english_version returns nothing exactly when every Metadata of the
\* list has English priority 0, and otherwise returns a Metadata of the list
\* that has the least nonzero English priority of the list.
C17_LeastNonzeroPriority ==
    VersionReturned =>
        /\ output.raised = ""
        /\ output.value = <<>> <=> English(input.versions) = {}
        /\ output.value # <<>> => output.value[1] \in BestEnglish(input.versions)

\* what the code does where C17 fails: nothing is returned for the empty
\* list and every other list raises AttributeError
C17_OnlyEmptyListReturns ==
    VersionReturned =>
        IF input.versions = <<>> THEN output = ReturnedNone
        ELSE output = RaisedError("AttributeError")

\* C18: the Metadata english_version returns is the one of least release
\* identity among those at the least nonzero priority, so every ordering of
\* the same collection returns the same Metadata.
C18_TieBreakByIdentity ==
    (VersionReturned /\ English(input.versions) # {}) =>
        /\ output.raised = ""
        /\ output.value # <<>>
        /\ output.value[1] \in FirstOfBest(input.versions)

EntitiesReturned == pc = "returned" /\ input.call = "english_entities"

Identities(list) == {IdentityOf(list[k]) : k \in 1..Len(list)}

WithIdentity(list, e) == SelectSeq(list, LAMBDA m : IdentityOf(m) = e)

\* C19: english_entities returns exactly one Metadata for each release
\* identity of the Game that has a version of nonzero English priority, one
\* of least nonzero priority within that identity, and nothing for the
\* other identities; two USA releases that differ by disc number are both
\* returned.
C19_OnePerEnglishIdentity ==
    EntitiesReturned =>
        /\ output.raised = ""
        /\ \A e \in Identities(input.versions) :
              LET mine == SelectSeq(output.value, LAMBDA m : IdentityOf(m) = e)
              IN  IF English(WithIdentity(input.versions, e)) = {}
                  THEN mine = <<>>
                  ELSE /\ Len(mine) = 1
                       /\ mine[1] \in BestEnglish(WithIdentity(input.versions, e))
        /\ \A k \in 1..Len(output.value) :
              IdentityOf(output.value[k]) \in Identities(input.versions)

\* what the code does where C19 fails: a Game of no version returns the
\* empty list and every other Game raises AttributeError
C19_OnlyEmptyGameReturns ==
    EntitiesReturned =>
        IF input.versions = <<>> THEN output = ReturnedList(<<>>)
        ELSE output = RaisedError("AttributeError")

(***************************************************************************)
(* DatFile.__init__.  The game children of the root are the records; the   *)
(* call of Metadata.from_stem on a record is the steps Tokenize,           *)
(* ClassifyTag and Build, and an exception of any step ends __init__.      *)
(***************************************************************************)
\* a game child: the attributes name, id and cloneofid and the text of the
\* children description and category
Record(name, description, id, cloneofid) ==
    [stem |-> name, description |-> description, category |-> "", id |-> id,
     cloneofid |-> cloneofid]

\* the stems of the records: two that classify and one that does not
KeptStems == {"T (USA)", "T (Demo)"}

RecordKinds ==
    { Record("T (USA)", "", "", ""),
      Record("T (USA)", "T (USA)", "1", ""),
      Record("T (USA)", "T", "", ""),
      Record("T (Demo)", "", "", ""),
      Record("T (Demo)", "", "1", ""),
      Record("T (Demo)", "", "2", "1"),
      Record("T (Demo)", "", "", "1"),
      Record("T (Disc 1) (Disc 2)", "", "", "") }

\* metadata_filter: None, or default_metadata_filter of application.py, or a
\* predicate on Metadata, given by the stems of the Metadata it accepts
NoFilter == [given |-> FALSE, accepts |-> {}, default |-> FALSE]
DefaultFilter == [given |-> TRUE, accepts |-> {}, default |-> TRUE]
Filters ==
    {NoFilter, DefaultFilter}
    \cup {[given |-> TRUE, accepts |-> a, default |-> FALSE] : a \in SUBSET KeptStems}

\* default_metadata_filter reads metadata.entity first, an attribute Metadata
\* does not have: it raises AttributeError and never returns
FilterRaises(filter, m) == filter.default /\ ~HasAttribute(m, "entity")

\* a filter that accepts every Metadata
AcceptAny(filter, m) == TRUE

\* metadata_filter(metadata) when it returns
metadata_filter(filter, m) == m.stem \in filter.accepts

\* the most game children of a catalog
MaxRecords == 3

\* the empty dict
EmptyDict == <<>>

InitDat ==
    /\ input \in [call : {"DatFile"}, records : ListsOf(RecordKinds, MaxRecords),
                   metadata_filter : Filters]
    /\ dat = [child |-> 1, stem_to_metadata |-> EmptyDict,
              id_to_metadata |-> EmptyDict, original_id_to_clones |-> EmptyDict]
    /\ pc = "read"
    /\ stem = ""
    /\ args = NoArgs
    /\ stem_info = NoStemInfo
    /\ error = ""
    /\ tag_index = 1
    /\ matchers = NoValues
    /\ languages = {}
    /\ regions = {}
    /\ unhandled_tag_values = <<>>
    /\ metadata = NoMetadata
    /\ output = NoOutput

\* the next game child up to the call of Metadata.from_stem: the
\* description check, the duplicate-stem check, and the arguments of the call
ReadGame ==
    /\ pc = "read"
    /\ dat.child <= Len(input.records)
    /\ IF /\ input.records[dat.child].description # ""
          /\ input.records[dat.child].stem # input.records[dat.child].description
       THEN /\ error' = "ERROR: description mismatch"
            /\ pc' = "raised"
            /\ UNCHANGED <<stem, args>>
       ELSE IF input.records[dat.child].stem \in DOMAIN dat.stem_to_metadata
       THEN /\ error' = "Duplicate stem"
            /\ pc' = "raised"
            /\ UNCHANGED <<stem, args>>
       ELSE /\ stem' = input.records[dat.child].stem
            /\ args' = [category |-> input.records[dat.child].category,
                        id |-> input.records[dat.child].id,
                        cloneofid |-> input.records[dat.child].cloneofid]
            /\ pc' = "start"
            /\ error' = ""
    /\ stem_info' = NoStemInfo
    /\ tag_index' = 1
    /\ matchers' = NoValues
    /\ languages' = {}
    /\ regions' = {}
    /\ unhandled_tag_values' = <<>>
    /\ metadata' = NoMetadata
    /\ UNCHANGED <<input, output, dat>>

\* original_id_to_clones.setdefault(cloneofid, set()).add(id)
AddClone(clones, cloneofid, id) ==
    IF cloneofid \in DOMAIN clones
    THEN [clones EXCEPT ![cloneofid] = @ \cup {id}]
    ELSE (cloneofid :> {id}) @@ clones

\* self.stem_to_metadata[stem] = metadata
Stored(d, m) == [d EXCEPT !.stem_to_metadata = (m.stem :> m) @@ @]

\* the statements under "if id:" that do not raise
WithId(d, m, id, cloneofid) ==
    [d EXCEPT !.id_to_metadata = (id :> m) @@ @,
              !.original_id_to_clones =
                  IF cloneofid # "" THEN AddClone(@, cloneofid, id) ELSE @]

\* on to the next child
NextChild(d) == [d EXCEPT !.child = @ + 1]

\* the game child after the call of Metadata.from_stem returned: the filter,
\* the store and the checks of id and cloneofid
StoreGame ==
    /\ pc = "done"
    /\ input.call = "DatFile"
    /\ IF /\ input.metadata_filter.given
          /\ FilterRaises(input.metadata_filter, metadata)
       THEN /\ error' = "AttributeError"
            /\ pc' = "raised"
            /\ UNCHANGED dat
       ELSE IF /\ input.metadata_filter.given
               /\ ~metadata_filter(input.metadata_filter, metadata)
       THEN /\ dat' = NextChild(dat)
            /\ pc' = "read"
            /\ UNCHANGED error
       ELSE IF args.id # ""
       THEN IF args.id \in DOMAIN dat.id_to_metadata
            THEN /\ dat' = Stored(dat, metadata)
                 /\ error' = "Duplicate id"
                 /\ pc' = "raised"
            ELSE /\ dat' = NextChild(WithId(Stored(dat, metadata), metadata,
                                            args.id, args.cloneofid))
                 /\ pc' = "read"
                 /\ UNCHANGED error
       ELSE IF args.cloneofid # ""
       THEN /\ dat' = Stored(dat, metadata)
            /\ error' = "has no id, but has cloneofid"
            /\ pc' = "raised"
       ELSE /\ dat' = NextChild(Stored(dat, metadata))
            /\ pc' = "read"
            /\ UNCHANGED error
    /\ UNCHANGED <<stem, args, stem_info, tag_index, matchers, languages, regions,
                   unhandled_tag_values, metadata, input, output>>

\* the statements after the loop over the children: both grouping loops read
\* metadata.title of a stored Metadata first, so they raise as soon as one is
\* stored; with none stored title_to_games stays empty.  title_to_games is
\* the list of the items of the dict in the order of its iteration, each a
\* title and a game
GroupGames ==
    /\ pc = "read"
    /\ dat.child > Len(input.records)
    /\ IF \E s \in DOMAIN dat.stem_to_metadata :
              ~HasAttribute(dat.stem_to_metadata[s], "title")
       THEN /\ error' = "AttributeError"
            /\ pc' = "raised"
            /\ UNCHANGED dat
       ELSE /\ pc' = "constructed"
            /\ dat' = [title_to_games |-> EmptyDict] @@ dat
            /\ UNCHANGED error
    /\ UNCHANGED <<stem, args, stem_info, tag_index, matchers, languages, regions,
                   unhandled_tag_values, metadata, input, output>>

NextDat == ReadGame \/ Tokenize \/ ClassifyTag \/ Build \/ StoreGame \/ GroupGames
SpecDat == InitDat /\ [][NextDat]_vars

(***************************************************************************)
(* Duplicate stems in a catalog.                                           *)
(***************************************************************************)
\* __init__ returned or raised
DatEnded == input.call = "DatFile" /\ pc \in {"raised", "failed", "constructed"}

\* two records of the catalog carry the same stem
SameStemTwice(records) ==
    \E i, j \in 1..Len(records) : i < j /\ records[i].stem = records[j].stem

\* the record is well formed apart from its stem being used again: its
\* description agrees, its stem classifies, and it has neither id nor
\* cloneofid
PlainRecord(r) ==
    /\ r.description \in {"", r.stem}
    /\ r.stem \in KeptStems
    /\ r.id = ""
    /\ r.cloneofid = ""

PlainCatalog(records) == \A k \in 1..Len(records) : PlainRecord(records[k])

\* C20: the construction of a DatFile fails with the duplicate-stem error
\* whenever two records of the catalog carry the same stem, whatever the
\* filter is and wherever in the catalog the two records are.
C20_DuplicateStemFails ==
    (DatEnded /\ PlainCatalog(input.records) /\ SameStemTwice(input.records)) =>
        pc = "raised" /\ error = "Duplicate stem"

\* what the code does where C20 fails: the duplicate is found when no filter
\* is given or the filter accepts the stem that is used twice
C20_DuplicateOfKeptStemFails ==
    (/\ DatEnded
     /\ PlainCatalog(input.records)
     /\ \E i, j \in 1..Len(input.records) :
           /\ i < j
           /\ input.records[i].stem = input.records[j].stem
           /\ \/ ~input.metadata_filter.given
              \/ input.records[i].stem \in input.metadata_filter.accepts)
    => pc = "raised" /\ error = "Duplicate stem"

(***************************************************************************)
(* A cloneofid without an id.                                              *)
(***************************************************************************)
\* a record of the catalog supplies a cloneofid and no id
CloneWithoutId(records) ==
    \E k \in 1..Len(records) : records[k].cloneofid # "" /\ records[k].id = ""

\* C21: the construction of a DatFile fails with an error whenever a record
\* of the catalog supplies a cloneofid and no id, whichever record it is.
C21_CloneWithoutIdFails ==
    (DatEnded /\ CloneWithoutId(input.records)) => pc \in {"raised", "failed"}

\* what the code does where C21 fails: the construction fails when no filter
\* is given or the filter accepts the stem of such a record
C21_KeptCloneWithoutIdFails ==
    (/\ DatEnded
     /\ \E k \in 1..Len(input.records) :
           /\ input.records[k].cloneofid # ""
           /\ input.records[k].id = ""
           /\ \/ ~input.metadata_filter.given
              \/ input.records[k].stem \in input.metadata_filter.accepts)
    => pc \in {"raised", "failed"}

(***************************************************************************)
(* Records the filter rejects.                                             *)
(***************************************************************************)
\* the filter returns False for the Metadata of the stem
RejectedStem(s) ==
    /\ input.metadata_filter.given
    /\ ~input.metadata_filter.default
    /\ s \notin input.metadata_filter.accepts

\* a record of the catalog that the filter accepts has the id and cloneofid
AcceptedLink(cloneofid, id) ==
    \E k \in 1..Len(input.records) :
        /\ ~RejectedStem(input.records[k].stem)
        /\ input.records[k].id = id
        /\ input.records[k].cloneofid = cloneofid

\* C22: a record whose Metadata the filter rejects is not in
\* stem_to_metadata, is in the versions of no Game, and adds no id and no
\* clone link to what the other records are grouped by.
C22_RejectedLeaveNoTrace ==
    input.call = "DatFile" =>
        /\ \A s \in DOMAIN dat.stem_to_metadata : ~RejectedStem(s)
        /\ \A i \in DOMAIN dat.id_to_metadata :
              /\ ~RejectedStem(dat.id_to_metadata[i].stem)
              /\ \E k \in 1..Len(input.records) :
                    /\ input.records[k].id = i
                    /\ input.records[k].stem = dat.id_to_metadata[i].stem
        /\ \A c \in DOMAIN dat.original_id_to_clones :
              \A i \in dat.original_id_to_clones[c] : AcceptedLink(c, i)
        /\ pc = "constructed" => dat.title_to_games = EmptyDict

C22_Witness ==
    /\ input.call = "DatFile"
    /\ input.metadata_filter.accepts = {"T (USA)"}
    /\ Len(input.records) = 3
    /\ input.records[1] = Record("T (Demo)", "", "1", "")
    /\ input.records[2] = Record("T (USA)", "T (USA)", "1", "")
    /\ input.records[3] = Record("T (Demo)", "", "2", "1")
    /\ dat.child = 4
    /\ DOMAIN dat.stem_to_metadata = {"T (USA)"}
    /\ DOMAIN dat.id_to_metadata = {"1"}
    /\ DOMAIN dat.original_id_to_clones = {}

(***************************************************************************)
(* The Games of a catalog that is ingested without an error.               *)
(***************************************************************************)
\* no record of the catalog raises in the loop over the records
IngestibleCatalog(records) ==
    /\ \A k \in 1..Len(records) :
          /\ records[k].description \in {"", records[k].stem}
          /\ records[k].stem \in KeptStems
          /\ records[k].cloneofid # "" => records[k].id # ""
    /\ \A i, j \in 1..Len(records) :
          i < j => /\ records[i].stem # records[j].stem
                   /\ records[i].id = "" \/ records[i].id # records[j].id

\* the filter, if one is given, returns for every Metadata
FilterReturns == ~input.metadata_filter.default

\* the positions of the records the filter does not reject
Retained == {k \in 1..Len(input.records) : ~RejectedStem(input.records[k].stem)}

\* the ids X of the clone lineages: a retained record has id X and a
\* retained record has cloneofid X
Lineages ==
    {x \in {input.records[k].id : k \in Retained} \ {""} :
        \E j \in Retained : input.records[j].cloneofid = x}

\* the stems of the members of the lineage of X
Members(x) ==
    {input.records[k].stem :
        k \in {j \in Retained : x \in {input.records[j].id,
                                       input.records[j].cloneofid}}}

\* the stems of the versions of a Game
GameStems(game) == {game.versions[i].stem : i \in 1..Len(game.versions)}

\* the construction of a catalog that raises nothing at ingestion ended
IngestedAndEnded ==
    DatEnded /\ IngestibleCatalog(input.records) /\ FilterReturns

\* C23: for every clone lineage of the catalog, a retained record with id X
\* and the retained records with cloneofid X, all members are versions of one
\* and the same Game of title_to_games.
C23_LineageInOneGame ==
    (IngestedAndEnded /\ Lineages # {}) =>
        /\ pc = "constructed"
        /\ \A x \in Lineages :
              \E i \in 1..Len(dat.title_to_games) :
                  Members(x) \subseteq GameStems(dat.title_to_games[i].game)

\* what the code does where C23 fails: the construction of a catalog of which
\* a record is retained ends with AttributeError, and title_to_games is
\* assigned, empty, only when no record is retained
GroupsOnlyNothing ==
    IngestedAndEnded =>
        IF Retained = {}
        THEN pc = "constructed" /\ dat.title_to_games = EmptyDict
        ELSE pc = "raised" /\ error = "AttributeError"

\* a.casefold() < b.casefold() for titles of ASCII letters
CasefoldLess(a, b) == StrLess(LowerStr(a), LowerStr(b))

\* C25: after the construction the keys of title_to_games iterate in
\* case-insensitive sorted order, also when a Game is keyed by its best
\* English title and not by the title of its group.
C25_KeysInCasefoldOrder ==
    (IngestedAndEnded /\ Retained # {}) =>
        /\ pc = "constructed"
        /\ Len(dat.title_to_games) >= 1
        /\ \A i, j \in 1..Len(dat.title_to_games) :
              i < j => ~CasefoldLess(dat.title_to_games[j].title,
                                     dat.title_to_games[i].title)

\* the Games a stored stem is a version of
GamesOf(s) ==
    {i \in 1..Len(dat.title_to_games) : s \in GameStems(dat.title_to_games[i].game)}

\* C29: after the construction every Metadata of stem_to_metadata is a
\* version of exactly one Game of title_to_games, whatever the clone links
\* and the shared titles are.
C29_GamesPartitionRecords ==
    (IngestedAndEnded /\ Retained # {}) =>
        /\ pc = "constructed"
        /\ \A s \in DOMAIN dat.stem_to_metadata : Cardinality(GamesOf(s)) = 1
        /\ \A i \in 1..Len(dat.title_to_games) :
              GameStems(dat.title_to_games[i].game) \subseteq DOMAIN dat.stem_to_metadata

(***************************************************************************)
(* The hierarchy of a Game.                                                *)
(***************************************************************************)
\* the full key path of a version: the edition (the version is a field of
\* it), the residual tags, the disc, the localization and the title
FullKeyPath(m) ==
    << m.unit.entity.variation.edition, m.unit.entity.unhandled_tags,
       m.unit.entity.variation.disc, m.unit.localization, m.unit.title >>

SharedKeyPath(list) ==
    \E i, j \in 1..Len(list) : i # j /\ FullKeyPath(list[i]) = FullKeyPath(list[j])

HierarchyReturned == pc = "returned" /\ input.call = "hierarchy"

\* C24: hierarchy fails with the duplicate sort key error exactly when two
\* versions of the Game share a full key path, and when it succeeds every
\* version is in the nested map exactly once.
C24_DuplicateKeyPathIffError ==
    HierarchyReturned =>
        /\ output.raised = "ValueError" <=> SharedKeyPath(input.versions)
        /\ output.raised # "ValueError" =>
              /\ output.raised = ""
              /\ \A k \in 1..Len(input.versions) :
                    Cardinality({l \in 1..Len(output.value) :
                                    output.value[l][2] = input.versions[k]}) = 1

\* what the code does where C24 fails: the Game of no version gets the empty
\* map and every other Game raises AttributeError
C24_OnlyEmptyGameReturns ==
    HierarchyReturned =>
        IF input.versions = <<>> THEN output = ReturnedList(<<>>)
        ELSE output = RaisedError("AttributeError")

(***************************************************************************)
(* The record a Metadata is built from.                                    *)
(***************************************************************************)
\* C27: the Metadata from_stem returns has the stem, the category, the id and
\* the cloneofid it was called with.
C27_CarriesItsRecord ==
    pc = "done" =>
        /\ metadata.stem = stem
        /\ metadata.category = args.category
        /\ metadata.id = args.id
        /\ metadata.cloneofid = args.cloneofid

\* what the code does where C27 fails: the stem and the category are those
\* of the call, the id and the cloneofid are the defaults of the dataclass
C27_CarriesStemAndCategory ==
    pc = "done" =>
        /\ metadata.stem = stem
        /\ metadata.category = args.category
        /\ metadata.id = ""
        /\ metadata.cloneofid = ""

(***************************************************************************)
(* Metadata.from_stem on a title followed by one disc tag.                 *)
(***************************************************************************)
\* the parts a disc tag is written from: a name or none, the word, and a
\* number or none
DiscTagNames == {"", "Story "}
DiscTagWords == {"Disc", "Disk", "disc"}
DiscTagNumbers == {"", " 0", " 00", " 1", " 2", " A", " B", " I", " V", " ichi"}

DiscTag(d) == d.name \o d.word \o d.number

InitDiscOfStem ==
    /\ input \in [call : {"Metadata.from_stem"}, name : DiscTagNames,
                   word : DiscTagWords, number : DiscTagNumbers]
    /\ stem = "T (" \o DiscTag(input) \o ")"
    /\ args = NoArgs
    /\ InitCommon

NextDiscOfStem == Tokenize \/ ClassifyTag \/ Build
SpecDiscOfStem == InitDiscOfStem /\ [][NextDiscOfStem]_vars

\* Disc.__bool__
Disc_bool(disc) == disc.name # "" \/ disc.number # 0

DiscOf(m) == m.unit.entity.variation.disc

TagsOf(info) == ValuesOf(info.tags)

\* C30: when a tag of the stem is claimed by the disc number recognizer the
\* Disc of the Metadata has a number of 1 or more and is not empty, and the
\* Disc is empty only when no tag was claimed by the disc name or the disc
\* number recognizer.
C30_ClaimedNumberIsPositive ==
    pc = "done" =>
        /\ (\E tag \in TagsOf(stem_info) : ClaimedBy("disc_number", tag)) =>
              DiscOf(metadata).number >= 1 /\ Disc_bool(DiscOf(metadata))
        /\ ~Disc_bool(DiscOf(metadata)) =>
              \A tag \in TagsOf(stem_info) :
                  ~ClaimedBy("disc_number", tag) /\ ~ClaimedBy("disc_name", tag)

\* what the code does where C30 fails: the Disc is empty when no tag was
\* claimed by the two recognizers or when the number claimed resolves to 0
\* and no name was claimed
C30_EmptyWithoutNameAndNumberZero ==
    pc = "done" =>
        (~Disc_bool(DiscOf(metadata)) <=>
            \A tag \in TagsOf(stem_info) :
                /\ ~ClaimedBy("disc_name", tag)
                /\ ClaimedBy("disc_number", tag) => DiscNumberOf(tag) = 0)

(***************************************************************************)
(* The order of Date and of Edition.                                       *)
(***************************************************************************)
\* the dates compared, "" being the absent date
ComparedDates == {"", "1999-01-01", "1999-01-02", "1999-12-31", "2024-01-01"}

\* Editions that differ in the date, in a field before it and in one after
ComparedEditions ==
    {[Edition(NoValues) EXCEPT !.date = d, !.debug = g, !.alternate = n] :
        d \in ComparedDates, g \in BOOLEAN, n \in {0, 1}}

InitEdition ==
    /\ stem = ""
    /\ args = NoArgs
    /\ input \in [call : {"Edition.__lt__"}, a : ComparedEditions,
                   b : ComparedEditions]
    /\ InitCommon

\* output = <<a.date < b.date, a < b>>
CompareEditions ==
    /\ pc = "start"
    /\ input.call = "Edition.__lt__"
    /\ output' = ReturnedList(<<Date_lt(input.a.date, input.b.date),
                                Edition_lt(input.a, input.b)>>)
    /\ pc' = "returned"
    /\ UNCHANGED <<stem, args, stem_info, error, tag_index, matchers, languages,
                   regions, unhandled_tag_values, metadata, input, dat>>

NextEdition == CompareEditions
SpecEdition == InitEdition /\ [][NextEdition]_vars

EditionsCompared == pc = "returned" /\ input.call = "Edition.__lt__"

\* the fields of an Edition before the date
BeforeDate(e) ==
    <<e.arcade, e.version, e.revision, e.prerelease, e.demo, e.early, e.debug>>

\* the ISO texts of two days are in the order of the days
Chronological(a, b) == StrLess(a, b)

\* C28: an absent date is less than every present date, present dates are
\* in chronological order and an absent date is not less than an absent
\* date; of two Editions equal in the fields before the date, the one with
\* no date is less than the one with a date.
C28_AbsentDateIsLeast ==
    EditionsCompared =>
        /\ output.value[1] <=>
              IF input.a.date = "" THEN input.b.date # ""
              ELSE input.b.date # "" /\ Chronological(input.a.date, input.b.date)
        /\ (/\ BeforeDate(input.a) = BeforeDate(input.b)
            /\ input.a.date = "" /\ input.b.date # "") => output.value[2]

\* what the code does where C28 fails: an absent date is greater than every
\* present date
C28_AbsentDateIsGreatest ==
    EditionsCompared =>
        /\ output.value[1] <=>
              IF input.b.date = "" THEN input.a.date # ""
              ELSE input.a.date # "" /\ Chronological(input.a.date, input.b.date)
        /\ (/\ BeforeDate(input.a) = BeforeDate(input.b)
            /\ input.a.date # "" /\ input.b.date = "") => output.value[2]

(***************************************************************************)
(* Metadata.from_stem on the tags of the vocabularies and their look-alikes.*)
(***************************************************************************)
ExampleStem == "Some Game (En,Fr,Sp) (Jp, Ko, Ch)"

\* values of the vocabularies, the same in another case, and codes that are
\* no value of them
LookalikeTags ==
    {"En", "en", "EN", "Fr", "fr", "Es", "es", "Sp", "Ja", "ja", "Jp", "Ko",
     "ko", "Zh", "Ch", "USA", "usa", "Usa", "UK", "uk", "Japan", "japan",
     "JAPAN", "Europe", "europe"}

LookalikeStems ==
    {ExampleStem}
    \cup {"T (" \o a \o ")" : a \in LookalikeTags}
    \cup {"T (" \o a \o "," \o b \o ")" : a \in LookalikeTags, b \in {"En", "usa"}}

InitLookalike ==
    /\ stem \in LookalikeStems
    /\ args = NoArgs
    /\ input = NoInput
    /\ InitCommon

NextLookalike == Tokenize \/ ClassifyTag \/ Build
SpecLookalike == InitLookalike /\ [][NextLookalike]_vars

\* the members of Language the example names
ENGLISH == "En"
FRENCH == "Fr"
SPANISH == "Es"
KOREAN == "Ko"

LanguagesOf(m) == m.unit.localization.languages
RegionsOf(m) == m.unit.localization.regions
ResidualOf(m) == m.unit.entity.unhandled_tags

\* a tag no recognizer claims is a language or a region exactly when it is
\* equal to a value of the vocabulary, and residual when it is neither
ExactMatchOnly ==
    \A tag \in TagsOf(stem_info) :
        ClaimingGroup(tag) = 0 =>
            /\ tag \in LanguagesOf(metadata) <=> tag \in Language
            /\ tag \in RegionsOf(metadata) <=> tag \in Region \ Language
            /\ tag \in ResidualOf(metadata) <=> tag \notin Language \cup Region

\* C26: the stem "Some Game (En,Fr,Sp) (Jp, Ko, Ch)" gets the title "Some
\* Game", the languages English, French and Spanish, no region and the
\* residual tags Jp, Ko and Ch; a tag becomes a language or a region only by
\* being equal, case and all, to a value of the vocabulary, and is residual
\* otherwise.
C26_ExampleHasSpanish ==
    pc = "done" =>
        /\ stem = ExampleStem =>
              /\ metadata.unit.title = "Some Game"
              /\ LanguagesOf(metadata) = {ENGLISH, FRENCH, SPANISH}
              /\ RegionsOf(metadata) = {}
              /\ ResidualOf(metadata) = {"Jp", "Ko", "Ch"}
        /\ ExactMatchOnly

\* C26 as the code has it: Sp is no value of the languages (Spanish is Es)
\* and Ko is the value of Korean, so the example gets the languages English,
\* French and Korean and the residual tags Sp, Jp and Ch.
C26_ExampleHasKorean ==
    pc = "done" =>
        /\ stem = ExampleStem =>
              /\ metadata.unit.title = "Some Game"
              /\ LanguagesOf(metadata) = {ENGLISH, FRENCH, KOREAN}
              /\ RegionsOf(metadata) = {}
              /\ ResidualOf(metadata) = {"Sp", "Jp", "Ch"}
        /\ ExactMatchOnly

C26_Witness ==
    /\ pc = "done"
    /\ stem = ExampleStem
    /\ LanguagesOf(metadata) = {ENGLISH, FRENCH, KOREAN}
    /\ ResidualOf(metadata) = {"Sp", "Jp", "Ch"}

====
